---- MODULE Spec2Model ----
(***************************************************************************)
(* A model of the Flipkart purchase-order parser (flipkart_po_parser.py).  *)
(*                                                                         *)
(* Text is modelled character by character: a Python str is a TLA+ string, *)
(* its i-th character is the one-character string SubSeq(s, i, i).  A      *)
(* Python value that may be of several types is a tagged record:           *)
(*   None                     -> [k |-> "none"]                            *)
(*   str s                    -> [k |-> "str", s |-> s]                    *)
(*   int/float n              -> [k |-> "num", n |-> n]                    *)
(*   float NaN (blank cell)   -> [k |-> "nan"]                             *)
(*   a raised exception       -> [k |-> "raise", e |-> <exception type>]   *)
(*   dict / list              -> [k |-> "dict", ...] / [k |-> "list", ...] *)
(***************************************************************************)
EXTENDS Integers, Sequences, FiniteSets, TLC

VARIABLES
    pc,                  \* the statement the modelled call is at
    exc,                 \* the exception that ended the call, or None
    address_arg,         \* _extract_details_from_address: its argument
    address_ret,         \* _extract_details_from_address: its return value
    df,                  \* the DataFrame pd.read_excel returned
    extracted_data,      \* self.extracted_data
    order_details_index, \* self.order_details_index
    calculated_total,    \* self.calculated_total, in hundredths
    sku_map,             \* self.sku_map
    order_json,          \* what _create_order_json returned
    checklist,           \* self.checklist
    new_emails,          \* run: the emails of the NEW folder, by their attachment
    email_id,            \* run: the email the loop is at
    folders,             \* the label (folder) each of these emails carries
    lookups,             \* create_order: status_id, source_id, extra_field_mapping
    requests,            \* the methods call_api was asked for, for this email
    base,                \* the Base system: what it answers to each method
    orders_added,        \* the emails for whose document addOrder created an order
    lambda_pc,           \* lambda_handler: the statement the invocation is at
    email_cred,          \* lambda_handler: email_cred, None before it is assigned
    client_configs,      \* lambda_handler: client_configs, None before it is assigned
    client,              \* lambda_handler: the position of the loop in client_configs
    attempted,           \* the client_id of each call of process_client, in order
    outcomes,            \* what each of these calls raised, or None
    result               \* what lambda_handler returned, None before it returns

vars == <<pc, exc, address_arg, address_ret, df, extracted_data, order_details_index,
          calculated_total, sku_map, order_json, checklist, new_emails, email_id,
          folders, lookups, requests, base, orders_added, lambda_pc, email_cred,
          client_configs, client, attempted, outcomes, result>>

\* what lambda_handler keeps
lambda_vars == <<lambda_pc, email_cred, client_configs, client, attempted, outcomes, result>>

\* what run and create_order keep besides the parser's fields
run_vars == <<new_emails, email_id, folders, lookups, requests, base, orders_added>>

None == [k |-> "none"]
NaN == [k |-> "nan"]
Str(s) == [k |-> "str", s |-> s]
Num(n) == [k |-> "num", n |-> n]
Raise(e) == [k |-> "raise", e |-> e]

IsStr(v) == v.k = "str"
IsRaise(v) == v.k = "raise"

(***************************************************************************)
(* Characters and character classes of Python's re module and str methods. *)
(***************************************************************************)
\* the slice s[m-1:n] of Python, with 1-based inclusive bounds
Sub(s, m, n) ==
    LET hi == IF n > Len(s) THEN Len(s) ELSE n
    IN IF m < 1 \/ m > hi THEN "" ELSE SubSeq(s, m, hi)
Ch(s, i) == Sub(s, i, i)

UpperAlpha == "ABCDEFGHIJKLMNOPQRSTUVWXYZ"
LowerAlpha == "abcdefghijklmnopqrstuvwxyz"
Digits == "0123456789"

CharsOf(s) == {Ch(s, i) : i \in 1..Len(s)}

\* \d, \w and \s of the re module, on the ASCII characters the model's texts use
DigitChars == CharsOf(Digits)
WordChars == CharsOf(UpperAlpha) \cup CharsOf(LowerAlpha) \cup DigitChars \cup {"_"}
SpaceChars == {" ", "\t", "\n", "\r", "\f"}

IsDigit(c) == c \in DigitChars
IsWordChar(c) == c \in WordChars
IsSpace(c) == c \in SpaceChars

\* str.lower() on one character
LowerMap ==
    [c \in CharsOf(UpperAlpha) |-> Ch(LowerAlpha, CHOOSE i \in 1..26 : Ch(UpperAlpha, i) = c)]
LowerCh(c) == IF c \in DOMAIN LowerMap THEN LowerMap[c] ELSE c

\* str.lower() on the characters i..j of s
RECURSIVE LowerRange(_, _, _)
LowerRange(s, i, j) ==
    IF i > j THEN ""
    ELSE IF i = j THEN LowerCh(Ch(s, i))
    ELSE LowerRange(s, i, (i + j) \div 2) \o LowerRange(s, (i + j) \div 2 + 1, j)
Lower(s) == LowerRange(s, 1, Len(s))

\* the slices s[:i-1] and s[i-1:] of Python, with 1-based i
Before(s, i) == Sub(s, 1, i - 1)
From(s, i) == Sub(s, i, Len(s))

\* pattern p occurs in s starting at position i
OccursAt(s, p, i) == i >= 1 /\ i + Len(p) - 1 <= Len(s) /\ Sub(s, i, i + Len(p) - 1) = p

\* the least element of a non-empty set of positions
First(S) == CHOOSE i \in S : \A j \in S : i <= j

\* Python's  p in s
Contains(s, p) == \E i \in 1..(Len(s) - Len(p) + 1) : OccursAt(s, p, i)

\* regex \b between positions i-1 and i of s
WordAt(s, i) == i >= 1 /\ i <= Len(s) /\ IsWordChar(Ch(s, i))
WordBoundary(s, i) == WordAt(s, i - 1) # WordAt(s, i)

\* str.replace(old, ""): every non-overlapping occurrence, left to right
RECURSIVE Remove(_, _)
Remove(s, old) ==
    LET at == {j \in 1..Len(s) : OccursAt(s, old, j)}
    IN IF old = "" \/ at = {} THEN s
       ELSE Before(s, First(at)) \o Remove(From(s, First(at) + Len(old)), old)

\* str.strip()
RECURSIVE LStrip(_)
LStrip(s) == IF s # "" /\ IsSpace(Ch(s, 1)) THEN LStrip(From(s, 2)) ELSE s
RECURSIVE RStrip(_)
RStrip(s) == IF s # "" /\ IsSpace(Ch(s, Len(s))) THEN RStrip(Before(s, Len(s))) ELSE s
Strip(s) == RStrip(LStrip(s))

\* length of the run of whitespace that starts at position i
RECURSIVE SpaceRun(_, _)
SpaceRun(s, i) == IF i <= Len(s) /\ IsSpace(Ch(s, i)) THEN 1 + SpaceRun(s, i + 1) ELSE 0

(***************************************************************************)
(* _extract_details_from_address                                           *)
(***************************************************************************)
indian_states == <<
    "Andhra Pradesh", "Arunachal Pradesh", "Assam", "Bihar", "Chhattisgarh", "Goa",
    "Gujarat", "Haryana", "Himachal Pradesh", "Jharkhand", "Karnataka", "Kerala",
    "Madhya Pradesh", "Maharashtra", "Manipur", "Meghalaya", "Mizoram", "Nagaland",
    "Odisha", "Punjab", "Rajasthan", "Sikkim", "Tamil Nadu", "Telangana",
    "Tripura", "Uttar Pradesh", "Uttarakhand", "West Bengal", "Delhi", "Puducherry",
    "Jammu and Kashmir", "Ladakh", "Andaman and Nicobar Islands", "Chandigarh",
    "Dadra and Nagar Haveli and Daman and Diu", "Lakshadweep" >>

\* r"\b\d{6}\b" matches s at position i
PincodeAt(s, i) ==
    /\ i >= 1 /\ i + 5 <= Len(s)
    /\ \A j \in i..(i + 5) : IsDigit(Ch(s, j))
    /\ WordBoundary(s, i) /\ WordBoundary(s, i + 6)

\* re.findall(pincode_pattern, address)[0], or None
pincode_found(address) ==
    LET at == {i \in 1..Len(address) : PincodeAt(address, i)}
    IN IF at # {} THEN Str(Sub(address, First(at), First(at) + 5)) ELSE None

\* r'\b' + re.escape(tok) + r'\b' matches s at position i.  With re.IGNORECASE
\* the callers pass s and tok in lower case: str.lower() keeps the length of an
\* ASCII text and the class of each of its characters.
TokenAt(s, tok, i) ==
    OccursAt(s, tok, i) /\ WordBoundary(s, i) /\ WordBoundary(s, i + Len(tok))

\* the positions of s where a word starts: the only places where r'\b'
\* followed by a letter can match
WordStarts(s) == {i \in 1..Len(s) : WordAt(s, i) /\ ~WordAt(s, i - 1)}

\* re.search(r'\b' + re.escape(state) + r'\b', address, re.IGNORECASE),
\* given address.lower(), its word starts and state.lower()
state_search(lowered, starts, state) == \E i \in starts : TokenAt(lowered, state, i)

indian_states_lower == [n \in 1..Len(indian_states) |-> Lower(indian_states[n])]

\* a variant of the loop that returns the region met first in the text
state_found_by_position(address) ==
    LET lowered == Lower(address)
        at(n) == {i \in WordStarts(lowered) : TokenAt(lowered, indian_states_lower[n], i)}
        hits == {n \in 1..Len(indian_states) : at(n) # {}}
    IN IF hits # {}
       THEN Str(indian_states[CHOOSE n \in hits : \A m \in hits : First(at(n)) <= First(at(m))])
       ELSE None

\* the for loop over indian_states with its break
state_found(address) ==
    LET lowered == Lower(address)
        starts == WordStarts(lowered)
        hits == {n \in 1..Len(indian_states) : state_search(lowered, starts, indian_states_lower[n])}
    IN IF hits # {} THEN Str(indian_states[First(hits)]) ELSE None

\* end of the line that position i is on: '.' does not match "\n"
LineEnd(s, i) ==
    LET nl == {j \in i..Len(s) : Ch(s, j) = "\n"}
    IN IF nl = {} THEN Len(s) ELSE First(nl) - 1

\* a variant of the substitution that drops the first occurrence as well
strip_from_first(s, tok, ic) ==
    LET ss == IF ic THEN Lower(s) ELSE s
        tt == IF ic THEN Lower(tok) ELSE tok
        at == {j \in 1..Len(s) : TokenAt(ss, tt, j)}
        i == First(at)
        e == LineEnd(s, i + Len(tok))
    IN IF at = {} THEN s
       ELSE Before(s, i) \o Remove(Sub(s, i + Len(tok), e), tok) \o From(s, e + 1)

\* re.sub(r'(\b' + re.escape(tok) + r'\b)(.*)',
\*        lambda m: m.group(1) + m.group(2).replace(tok, ''), s, count=1)
\* (ic is flags=re.IGNORECASE: it governs the search, never the str.replace)
strip_after_first(s, tok, ic) ==
    LET ss == IF ic THEN Lower(s) ELSE s
        tt == IF ic THEN Lower(tok) ELSE tok
        at == {j \in 1..Len(s) : TokenAt(ss, tt, j)}
        i == First(at)
        e == LineEnd(s, i + Len(tok))
    IN IF at = {} THEN s
       ELSE Before(s, i) \o Sub(s, i, i + Len(tok) - 1)
                \o Remove(Sub(s, i + Len(tok), e), tok) \o From(s, e + 1)

\* re.sub(pattern, ' ', s) for the patterns r'\s{2,}' and r'\s+': each match is
\* a maximal run of at least `least` whitespace characters
RECURSIVE sub_space_runs(_, _)
sub_space_runs(s, least) ==
    LET at == {j \in 1..Len(s) : SpaceRun(s, j) >= least}
    IN IF at = {} THEN s
       ELSE Before(s, First(at)) \o " "
                \o sub_space_runs(From(s, First(at) + SpaceRun(s, First(at))), least)

\* a variant of the substitution below with the pattern r'\s+'
collapse_every_space(s) == sub_space_runs(s, 1)

\* re.sub(r'\s{2,}', ' ', s)
collapse_spaces(s) == sub_space_runs(s, 2)

\* a variant of the substitution that leaves the commas
commas_unchanged(s) == s

\* r',\s*,' matches s at position i
CommaPairAt(s, i) == Ch(s, i) = "," /\ Ch(s, i + 1 + SpaceRun(s, i + 1)) = ","

\* re.sub(r',\s*,', ',', s)
RECURSIVE collapse_commas(_)
collapse_commas(s) ==
    LET at == {j \in 1..Len(s) : CommaPairAt(s, j)}
    IN IF at = {} THEN s
       ELSE Before(s, First(at)) \o ","
                \o collapse_commas(From(s, First(at) + 2 + SpaceRun(s, First(at) + 1)))

\* re.sub(r',\s*$', '', s): '$' is the end of the text, or the place before a
\* newline that ends it, and \s* takes that newline too
strip_trailing_comma(s) ==
    LET at == {j \in 1..Len(s) : Ch(s, j) = "," /\ SpaceRun(s, j + 1) = Len(s) - j}
    IN IF at = {} THEN s ELSE Before(s, First(at))

\* re.sub(r'(?i)\bGSTIN NO:\s*', '', s)
RECURSIVE strip_gstin(_)
strip_gstin(s) ==
    LET ls == Lower(s)
        at == {j \in 1..Len(s) : OccursAt(ls, "gstin no:", j) /\ WordBoundary(s, j)}
    IN IF at = {} THEN s
       ELSE Before(s, First(at))
                \o strip_gstin(From(s, First(at) + 9 + SpaceRun(s, First(at) + 9)))

\* the four clean-up substitutions, each followed by .strip()
clean_up(s) ==
    LET a == Strip(collapse_spaces(s))
        b == Strip(collapse_commas(a))
        c == Strip(strip_trailing_comma(b))
    IN Strip(strip_gstin(c))

Truthy(v) ==
    CASE v.k = "none" -> FALSE
      [] v.k = "str" -> v.s # ""
      [] v.k = "num" -> v.n # 0
      [] OTHER -> TRUE

AddressDict(a, p, s) == [k |-> "dict", address |-> a, pincode |-> p, state |-> s]

extract_details_from_address(address) ==
    IF ~Truthy(address) THEN AddressDict("", None, None)
    ELSE IF ~IsStr(address) THEN Raise("TypeError")
    ELSE LET pin == pincode_found(address.s)
             st == state_found(address.s)
             c1 == IF pin # None THEN strip_after_first(address.s, pin.s, FALSE) ELSE address.s
             c2 == IF st # None THEN strip_after_first(c1, st.s, TRUE) ELSE c1
         IN AddressDict(clean_up(c2), pin, st)

(***************************************************************************)
(* Python dicts and the cells of a DataFrame                               *)
(***************************************************************************)
EmptyDict == [x \in {} |-> None]
Get(d, key) == IF key \in DOMAIN d THEN d[key] ELSE None
Put(d, key, v) == [x \in DOMAIN d \cup {key} |-> IF x = key THEN v ELSE d[x]]

List(items) == [k |-> "list", items |-> items]

\* str(n) for an integer n >= 0
RECURSIVE IntStr(_)
IntStr(n) == IF n < 10 THEN Ch(Digits, n + 1) ELSE IntStr(n \div 10) \o Ch(Digits, (n % 10) + 1)

\* str(cell)
PyStr(cell) ==
    CASE cell.k = "str" -> cell.s
      [] cell.k = "nan" -> "nan"
      [] cell.k = "num" -> IF cell.n < 0 THEN "-" \o IntStr(-cell.n) ELSE IntStr(cell.n)
      [] OTHER -> "None"

(***************************************************************************)
(* normalize_field_name                                                    *)
(***************************************************************************)
\* str.replace(' ', '_')
RECURSIVE spaces_to_underscores(_)
spaces_to_underscores(s) ==
    LET at == {j \in 1..Len(s) : Ch(s, j) = " "}
    IN IF at = {} THEN s
       ELSE Before(s, First(at)) \o "_" \o spaces_to_underscores(From(s, First(at) + 1))

\* length of the run of underscores that starts at position i
RECURSIVE UnderscoreRun(_, _)
UnderscoreRun(s, i) == IF Ch(s, i) = "_" THEN 1 + UnderscoreRun(s, i + 1) ELSE 0

\* re.sub(r'_+', '_', s)
RECURSIVE collapse_underscores(_)
collapse_underscores(s) ==
    LET at == {j \in 1..Len(s) : Ch(s, j) = "_"}
    IN IF at = {} THEN s
       ELSE Before(s, First(at)) \o "_"
                \o collapse_underscores(From(s, First(at) + UnderscoreRun(s, First(at))))

\* str.strip('_')
RECURSIVE strip_underscores(_)
strip_underscores(s) ==
    IF Ch(s, 1) = "_" THEN strip_underscores(From(s, 2))
    ELSE IF Ch(s, Len(s)) = "_" THEN strip_underscores(Before(s, Len(s)))
    ELSE s

normalize_field_name(field_name) ==
    IF field_name = "" THEN ""
    ELSE strip_underscores(collapse_underscores(spaces_to_underscores(
             sub_space_runs(Lower(Strip(field_name)), 1))))

(***************************************************************************)
(* _extract_order_details, _process_cell, _get_next_non_empty_value        *)
(***************************************************************************)
fields_to_extract == {
    "PO#", "Nature Of Supply", "Nature of Transaction", "PO Expiry",
    "CATEGORY", "ORDER DATE", "SUPPLIER NAME",
    "SUPPLIER ADDRESS", "SUPPLIER CONTACT", "Billed by", "Shipped From",
    "BILLED TO ADDRESS", "SHIPPED TO ADDRESS", "MODE OF PAYMENT",
    "CONTRACT REF ID", "CONTRACT VERSION", "CREDIT TERM" }

\* a variant that looks at the adjacent cell only
adjacent_value(row, start_col_index) ==
    IF start_col_index < Len(row) /\ row[start_col_index + 1] # NaN
    THEN row[start_col_index + 1] ELSE None

\* columns are counted from 1 here and from 0 in the code
get_next_non_empty_value(row, start_col_index) ==
    LET filled == {c \in (start_col_index + 1)..Len(row) : row[c] # NaN}
    IN IF filled = {} THEN None ELSE row[First(filled)]

\* the names the labels and the special fields are recorded under
field_names == [label \in fields_to_extract |-> normalize_field_name(label)]
supplier_email == normalize_field_name("Supplier EMAIL")
billed_by_gstin == normalize_field_name("Billed By GSTIN")
billed_by_state_code == normalize_field_name("Billed By State Code")

\* the assignment of one value to every key of keys
PutAll(d, keys, v) == [x \in DOMAIN d \cup keys |-> IF x \in keys THEN v ELSE d[x]]

\* a variant that assigns nothing when no value stands right of the cell
process_cell_with_value(data, cell, row, col_index) ==
    IF get_next_non_empty_value(row, col_index) = None THEN data
    ELSE PutAll(data,
                (IF cell \in fields_to_extract THEN {field_names[cell]} ELSE {})
                \cup (IF Contains(cell, "EMAIL") THEN {supplier_email} ELSE {})
                \cup (IF Contains(cell, "GSTIN") THEN {billed_by_gstin} ELSE {})
                \cup (IF Contains(cell, "State Code") THEN {billed_by_state_code} ELSE {}),
                get_next_non_empty_value(row, col_index))

\* the four tests assign the same value, each under its own name
process_cell(data, cell, row, col_index) ==
    PutAll(data,
           (IF cell \in fields_to_extract THEN {field_names[cell]} ELSE {})
           \cup (IF Contains(cell, "EMAIL") THEN {supplier_email} ELSE {})
           \cup (IF Contains(cell, "GSTIN") THEN {billed_by_gstin} ELSE {})
           \cup (IF Contains(cell, "State Code") THEN {billed_by_state_code} ELSE {}),
           get_next_non_empty_value(row, col_index))

\* the for loop over the cells of one row, from column c on: the call of
\* _process_cell, then the test for the marker with its break
RECURSIVE scan_cells(_, _, _), marker_test(_, _, _)
scan_cells(data, row, c) ==
    IF c > Len(row) THEN [data |-> data, found |-> FALSE]
    ELSE marker_test(IF IsStr(row[c]) THEN process_cell(data, row[c].s, row, c) ELSE data,
                     row, c)

marker_test(data, row, c) ==
    IF Contains(PyStr(row[c]), "ORDER DETAILS")
    THEN [data |-> data, found |-> TRUE]
    ELSE scan_cells(data, row, c + 1)

\* a variant that scans every row, whatever its first cell holds
RECURSIVE scan_every_row(_, _, _)
scan_every_row(data, rows, index) ==
    IF index >= Len(rows) THEN [data |-> data, found |-> FALSE, index |-> 0]
    ELSE LET r == scan_cells(data, rows[index + 1], 1)
         IN IF r.found THEN [data |-> r.data, found |-> TRUE, index |-> index]
            ELSE scan_every_row(r.data, rows, index + 1)

\* the while loop over the rows, from row index on (counted from 0, as
\* df.iloc): the scan of the row's cells, then the test of the flag
RECURSIVE scan_rows(_, _, _), flag_test(_, _, _)
scan_rows(data, rows, index) ==
    IF index >= Len(rows) THEN [data |-> data, found |-> FALSE, index |-> 0]
    ELSE IF IsStr(rows[index + 1][1])
         THEN flag_test(scan_cells(data, rows[index + 1], 1), rows, index)
         ELSE scan_rows(data, rows, index + 1)

flag_test(scanned, rows, index) ==
    IF scanned.found THEN [data |-> scanned.data, found |-> TRUE, index |-> index]
    ELSE scan_rows(scanned.data, rows, index + 1)

\* what follows the loop: the index is stored, or the error raised
after_scan(scanned, odi) ==
    IF scanned.found
    THEN [data |-> scanned.data, order_details_index |-> Num(scanned.index), exc |-> None]
    ELSE [data |-> scanned.data, order_details_index |-> odi, exc |-> Raise("ValueError")]

\* the call's effect: self.extracted_data, self.order_details_index, the exception
extract_order_details(data, odi, frame) == after_scan(scan_rows(data, frame.rows, 0), odi)

(***************************************************************************)
(* _process_line_items                                                     *)
(***************************************************************************)
\* "Important Notification" in row.to_string(): the rendering shows the index
\* labels of the row, which are the column labels of df, and its cells, each
\* in full as long as it is shorter than pandas' display.max_colwidth
in_row_to_string(text, columns, row) ==
    \E c \in 1..Len(row) : Contains(PyStr(columns[c]), text) \/ Contains(PyStr(row[c]), text)

\* DataFrame.to_dict(orient="records") for one row: a later column replaces an
\* earlier one of the same label
Record(labels, row) ==
    [key \in {labels[c] : c \in 1..Len(labels)} |->
        row[CHOOSE c \in 1..Len(labels) :
                labels[c] = key /\ \A c2 \in 1..Len(labels) : labels[c2] = key => c2 <= c]]

\* the names the totals are recorded under
total_quantity_field == normalize_field_name("Total Quantity=")
total_field == normalize_field_name("Total=")

\* the for loop over the cells of the totals row, from column c on
RECURSIVE scan_totals(_, _, _)
scan_totals(data, row, c) ==
    IF c > Len(row) THEN data
    ELSE scan_totals(
            PutAll(data,
                   (IF IsStr(row[c]) /\ Contains(row[c].s, "Total Quantity=")
                    THEN {total_quantity_field} ELSE {})
                   \cup (IF IsStr(row[c]) /\ Contains(row[c].s, "Total=")
                         THEN {total_field} ELSE {}),
                   get_next_non_empty_value(row, c)),
            row, c + 1)

\* a variant that keeps the row of the notification in the table
truncate_after(table, inr) == IF inr # None THEN SubSeq(table, 1, inr.n + 1) ELSE table

\* table_df.iloc[:important_notification_row_index], when the row was found
truncate(table, inr) == IF inr # None THEN SubSeq(table, 1, inr.n) ELSE table

process_line_items(data, odi, frame) ==
    LET start_row == odi.n + 1
        table == SubSeq(frame.rows, start_row + 1, Len(frame.rows))
        marked == {i \in 1..Len(table) :
                      in_row_to_string("Important Notification", frame.columns, table[i])}
        \* important_notification_row_index, counted from 0
        inr == IF marked = {} THEN None ELSE Num(First(marked) - 1)
        truncated == truncate(table, inr)
        items == [i \in 1..(Len(truncated) - 1) |-> Record(truncated[1], truncated[i + 1])]
        d1 == Put(data, "Line_Items", List(items))
    IN IF Len(truncated) = 0 THEN [data |-> data, exc |-> Raise("IndexError")]
       ELSE IF inr = None THEN [data |-> d1, exc |-> Raise("TypeError")]
       ELSE [data |-> scan_totals(d1, frame.rows[start_row + inr.n + 1], 1), exc |-> None]

(***************************************************************************)
(* _process_addresses                                                      *)
(***************************************************************************)
address_fields == <<"billed_to_address", "shipped_to_address", "supplier_address">>

\* a variant that normalizes only the fields the scan has recorded
RECURSIVE found_addresses_from(_, _)
found_addresses_from(data, n) ==
    IF n > Len(address_fields) THEN [data |-> data, exc |-> None]
    ELSE IF address_fields[n] \notin DOMAIN data THEN found_addresses_from(data, n + 1)
    ELSE LET r == extract_details_from_address(data[address_fields[n]])
         IN IF IsRaise(r) THEN [data |-> data, exc |-> r]
            ELSE found_addresses_from(Put(data, address_fields[n], r), n + 1)

process_found_addresses(data) == found_addresses_from(data, 1)

\* the assignments of what the calls return, ret[n] for the n-th field, in
\* order; the first call that raises ends them
assign_addresses(data, ret) ==
    LET raising == {n \in 1..Len(address_fields) : IsRaise(ret[n])}
        assigned == IF raising = {} THEN 1..Len(address_fields) ELSE 1..(First(raising) - 1)
    IN [data |-> [x \in DOMAIN data \cup {address_fields[n] : n \in assigned} |->
                    IF \E n \in assigned : address_fields[n] = x
                    THEN ret[CHOOSE n \in assigned : address_fields[n] = x]
                    ELSE data[x]],
        exc |-> IF raising = {} THEN None ELSE ret[First(raising)]]

\* no call changes the argument of a later one
process_addresses(data) ==
    assign_addresses(data, [n \in 1..Len(address_fields) |->
                               extract_details_from_address(Get(data, address_fields[n]))])


(***************************************************************************)
(* float(), int() and round() on the amounts of a document.  A float is    *)
(* kept as the decimal it is written as, n / 10^d with the least d.  The   *)
(* texts of the model are plain decimal literals: no exponent, no          *)
(* underscore, no "inf", no "nan".                                         *)
(***************************************************************************)
RECURSIVE Pow10(_)
Pow10(d) == IF d = 0 THEN 1 ELSE 10 * Pow10(d - 1)

Abs(n) == IF n < 0 THEN -n ELSE n

RECURSIVE Float(_, _)
Float(n, d) ==
    IF d > 0 /\ n % 10 = 0 THEN Float(n \div 10, d - 1)
    ELSE [k |-> "float", n |-> n, d |-> d]

FloatAdd(a, b) ==
    LET d == IF a.d > b.d THEN a.d ELSE b.d
    IN Float(a.n * Pow10(d - a.d) + b.n * Pow10(d - b.d), d)

DigitValue(c) == (CHOOSE i \in 1..Len(Digits) : Ch(Digits, i) = c) - 1

\* the number that a text of digits writes
RECURSIVE DigitsValue(_)
DigitsValue(s) ==
    IF s = "" THEN 0
    ELSE 10 * DigitsValue(Before(s, Len(s))) + DigitValue(Ch(s, Len(s)))

AllDigits(s) == \A i \in 1..Len(s) : IsDigit(Ch(s, i))

\* the sign of a literal and the literal without it
Sign(s) == IF Ch(s, 1) = "-" THEN -1 ELSE 1
Unsigned(s) == IF Ch(s, 1) \in {"+", "-"} THEN From(s, 2) ELSE s

\* float(text)
float_of_text(text) ==
    LET body == Unsigned(Strip(text))
        dots == {i \in 1..Len(body) : Ch(body, i) = "."}
        whole == IF dots = {} THEN body ELSE Before(body, First(dots))
        frac == IF dots = {} THEN "" ELSE From(body, First(dots) + 1)
    IN IF AllDigits(whole) /\ AllDigits(frac) /\ whole \o frac # ""
       THEN Float(Sign(Strip(text)) * DigitsValue(whole \o frac), Len(frac))
       ELSE Raise("ValueError")

\* int(text)
int_of_text(text) ==
    LET body == Unsigned(Strip(text))
    IN IF AllDigits(body) /\ body # ""
       THEN Num(Sign(Strip(text)) * DigitsValue(body))
       ELSE Raise("ValueError")

\* float(v) and int(v) for a cell or None; float(nan) is nan, int(nan) raises
py_float(v) ==
    CASE v.k = "str" -> float_of_text(v.s)
      [] v.k = "num" -> Float(v.n, 0)
      [] v.k = "nan" -> NaN
      [] OTHER -> Raise("TypeError")

py_int(v) ==
    CASE v.k = "str" -> int_of_text(v.s)
      [] v.k = "num" -> v
      [] v.k = "nan" -> Raise("ValueError")
      [] OTHER -> Raise("TypeError")

\* round(n / 10^d / q, 2) in hundredths, for an integer q # 0.  The quotient
\* is a binary float: a tie that has an exact binary form goes to the even
\* hundredth, any other tie goes where the error of the quotient puts it.
round_cents(n, d, q) ==
    LET num == IF q < 0 THEN -(100 * n) ELSE 100 * n
        den == Pow10(d) * Abs(q)
        low == num \div den
        rest == num % den
    IN IF 2 * rest < den THEN {low}
       ELSE IF 2 * rest > den THEN {low + 1}
       ELSE IF (2 * low + 1) % 25 = 0 THEN {IF low % 2 = 0 THEN low ELSE low + 1}
       ELSE {low, low + 1}

(***************************************************************************)
(* _convert_to_unix                                                        *)
(***************************************************************************)
\* the days of month m in the year 2000 + y or 1900 + y
DaysIn(m, y) ==
    IF m \in {4, 6, 9, 11} THEN 30
    ELSE IF m = 2 THEN (IF y % 4 = 0 THEN 29 ELSE 28)
    ELSE 31

\* time.mktime(strptime(date_str.strip(), "%d-%m-%y")): the local midnight of
\* the date, kept as the date; its seconds depend on the zone of the machine
convert_to_unix(date_str) ==
    IF ~IsStr(date_str) THEN Raise("AttributeError")
    ELSE LET text == Strip(date_str.s)
             dashes == {i \in 1..Len(text) : Ch(text, i) = "-"}
             dash1 == First(dashes)
             dash2 == First(dashes \ {dash1})
             d == Before(text, dash1)
             m == Sub(text, dash1 + 1, dash2 - 1)
             y == From(text, dash2 + 1)
         IN IF /\ Cardinality(dashes) = 2
               /\ AllDigits(d) /\ Len(d) \in {1, 2} /\ DigitsValue(d) >= 1
               /\ AllDigits(m) /\ Len(m) \in {1, 2} /\ DigitsValue(m) \in 1..12
               /\ AllDigits(y) /\ Len(y) = 2
               /\ DigitsValue(d) <= DaysIn(DigitsValue(m), DigitsValue(y))
            THEN [k |-> "time",
                  year |-> IF DigitsValue(y) < 69 THEN 2000 + DigitsValue(y)
                           ELSE 1900 + DigitsValue(y),
                  month |-> DigitsValue(m), day |-> DigitsValue(d)]
            ELSE Raise("ValueError")

(***************************************************************************)
(* _create_order_json.  Amounts are in hundredths.                         *)
(***************************************************************************)
Tolerance == 5

extra_field_to_po_field_mapping == ("PO Number" :> "po#") @@ ("PO Expiry" :> "po_expiry")

\* self.client_config.sender_email
sender_email == Str("orders@client.example")

tax_rates == <<"SGST/UTGST Rate", "CGST Rate", "IGST Rate">>

\* item.get(key, "0")
GetOr0(item, key) == IF Str(key) \in DOMAIN item THEN item[Str(key)] ELSE Str("0")

\* the sum over the rates from the n-th on, added to total; a cell that is
\* no text has no replace
RECURSIVE tax_rate_from(_, _, _)
tax_rate_from(item, n, total) ==
    IF n > Len(tax_rates) THEN total
    ELSE LET cell == GetOr0(item, tax_rates[n])
             rate == IF IsStr(cell) THEN float_of_text(Remove(cell.s, "%"))
                     ELSE Raise("AttributeError")
         IN IF IsRaise(rate) THEN rate ELSE tax_rate_from(item, n + 1, FloatAdd(total, rate))

\* a variant that keeps the cell as it is
ean_unchanged(cell) == cell

\* item.get("FSN/ISBN13").replace(" ", "")
ean_of(cell) == Remove(cell, " ")

\* the dict product of one line item: what the evaluation raises, or the
\* products it can build
product_of(item) ==
    LET ean == Get(item, Str("FSN/ISBN13"))
        amount == GetOr0(item, "Total Amount")
        total == IF IsStr(amount) THEN float_of_text(Remove(amount.s, ","))
                 ELSE Raise("AttributeError")
        divisor == py_float(Get(item, Str("Quantity")))
        tax_rate == tax_rate_from(item, 1, Float(0, 0))
        quantity == py_int(Get(item, Str("Quantity")))
    IN IF ~IsStr(ean) THEN {Raise("AttributeError")}
       ELSE IF IsRaise(total) THEN {total}
       ELSE IF IsRaise(divisor) THEN {divisor}
       ELSE IF divisor # NaN /\ divisor.n = 0 THEN {Raise("ZeroDivisionError")}
       ELSE IF IsRaise(tax_rate) THEN {tax_rate}
       ELSE IF IsRaise(quantity) THEN {quantity}
       ELSE {[k |-> "product",
              name |-> Get(item, Str("Title")),
              ean |-> ean_of(ean.s),
              price_brutto |-> price,
              tax_rate |-> tax_rate,
              quantity |-> quantity.n] : price \in round_cents(total.n, total.d, quantity.n)}

\* a variant of the slice that keeps the last line item
every_item(line_items) == line_items

\* self.extracted_data.get("Line_Items")[:-1]
all_but_last(line_items) == SubSeq(line_items, 1, Len(line_items) - 1)

\* round(product["price_brutto"] * float(item.get("Quantity")), 2), in
\* hundredths: the price has two decimals and the quantity has passed int(),
\* so the float product is next to a hundredth and round gives that one
line_amount(price_brutto, quantity) == price_brutto * quantity

\* a variant of the assignment that keeps the total the parser holds
stale_total(total) == total

\* self.calculated_total = 0
zero_total(total) == 0

\* the for loop over the items from the i-th on; acc holds order_json's
\* products and custom_extra_fields, self.calculated_total and self.sku_map
RECURSIVE products_from(_, _, _, _)
products_from(items, i, sender_mail_id, acc) ==
    IF i > Len(items) THEN {acc}
    ELSE UNION {
        IF IsRaise(p) THEN {[acc EXCEPT !.exc = p]}
        ELSE products_from(items, i + 1, sender_mail_id,
                [products |-> Append(acc.products, p),
                 custom_extra_fields |->
                     Put(acc.custom_extra_fields, sender_mail_id, sender_email),
                 calculated_total |->
                     acc.calculated_total + line_amount(p.price_brutto, p.quantity),
                 sku_map |-> Put(acc.sku_map, p.ean, p.price_brutto),
                 exc |-> None]) : p \in product_of(items[i])}

\* float(Line_Items[-1].get("Total Amount").replace("INR", "").replace(" ", ""))
grand_total(line_items) ==
    LET amount == Get(line_items[Len(line_items)], Str("Total Amount"))
    IN IF line_items = <<>> THEN Raise("IndexError")
       ELSE IF ~IsStr(amount) THEN Raise("AttributeError")
       ELSE float_of_text(Remove(Remove(amount.s, "INR"), " "))

\* a variant of the comparison that fails at the tolerance already
difference_reaches(difference, limit) == difference >= limit

\* difference > 5
difference_exceeds(difference, limit) == difference > limit

\* the binary floats of these amounts are the amounts themselves
IsBinary(products, grand) ==
    /\ \A i \in 1..Len(products) : (products[i].price_brutto * products[i].quantity) % 25 = 0
    /\ (100 * grand.n) % (25 * Pow10(grand.d)) = 0

\* abs(self.calculated_total - grand_total) > 5: when the decimal difference
\* is the tolerance and the floats are not exact, their error decides
exceeds(products, total, grand) ==
    LET difference == Abs(total * Pow10(grand.d) - 100 * grand.n)
        limit == Tolerance * 100 * Pow10(grand.d)
    IN IF difference = limit /\ ~IsBinary(products, grand) THEN {TRUE, FALSE}
       ELSE {difference_exceeds(difference, limit)}

ReconciliationError ==
    [k |-> "raise", e |-> "ValueError",
     msg |-> "Calculated total price and PDF total price do not match"]

\* the dict comprehension of custom_extra_fields
custom_extra_fields(data, extra_field_mapping) ==
    [id \in {extra_field_mapping[key] : key \in DOMAIN extra_field_mapping} |->
        LET key == CHOOSE name \in DOMAIN extra_field_mapping : extra_field_mapping[name] = id
        IN IF key \in DOMAIN extra_field_to_po_field_mapping
           THEN Get(data, extra_field_to_po_field_mapping[key]) ELSE None]

\* what a call can do: the order it returns or the exception it raises, and
\* self.calculated_total and self.sku_map as it leaves them
create_order_json(data, total, map, status_id, source_id, extra_field_mapping) ==
    LET date_add == convert_to_unix(Get(data, "order_date"))
        shipped == Get(data, "shipped_to_address")
        supplier == Get(data, "supplier_address")
        billed == Get(data, "billed_to_address")
        line_items == Get(data, "Line_Items")
        raised(e, t, m) ==
            [order_json |-> None, calculated_total |-> t, sku_map |-> m, exc |-> e]
        looped == products_from(all_but_last(line_items.items), 1,
                                Get(extra_field_mapping, "Sender Mail"),
                                [products |-> <<>>,
                                 custom_extra_fields |->
                                     custom_extra_fields(data, extra_field_mapping),
                                 calculated_total |-> zero_total(total),
                                 sku_map |-> map,
                                 exc |-> None])
        validated(acc) ==
            LET grand == grand_total(line_items.items)
            IN IF acc.exc # None
               THEN {raised(acc.exc, acc.calculated_total, acc.sku_map)}
               ELSE IF IsRaise(grand)
               THEN {raised(grand, acc.calculated_total, acc.sku_map)}
               ELSE {IF over
                     THEN raised(ReconciliationError, acc.calculated_total, acc.sku_map)
                     ELSE [order_json |->
                              [k |-> "dict",
                               order_status_id |-> status_id,
                               custom_source_id |-> source_id,
                               date_add |-> date_add,
                               currency |-> "INR",
                               payment_method_cod |-> "1",
                               paid |-> "0",
                               delivery_address |-> shipped.address,
                               delivery_state |-> shipped.state,
                               delivery_postcode |-> shipped.pincode,
                               delivery_country_code |-> "IN",
                               delivery_point_name |-> Get(data, "supplier_name"),
                               delivery_point_address |-> supplier.address,
                               delivery_point_postcode |-> supplier.pincode,
                               invoice_nip |-> Get(data, "billed_by_gstin"),
                               invoice_address |-> billed.address,
                               invoice_state |-> billed.state,
                               invoice_postcode |-> billed.pincode,
                               invoice_country_code |-> "IN",
                               products |-> acc.products,
                               custom_extra_fields |-> acc.custom_extra_fields],
                           calculated_total |-> acc.calculated_total,
                           sku_map |-> acc.sku_map,
                           exc |-> None]
                      : over \in exceeds(acc.products, acc.calculated_total, grand)}
    IN IF IsRaise(date_add) THEN {raised(date_add, total, map)}
       ELSE IF shipped.k # "dict" \/ supplier.k # "dict" \/ billed.k # "dict"
       THEN {raised(Raise("AttributeError"), total, map)}
       ELSE IF line_items = None THEN {raised(Raise("TypeError"), 0, map)}
       ELSE UNION {validated(acc) : acc \in looped}

(***************************************************************************)
(* create_order: the lookups of the Base API.  A response is the dict      *)
(* call_api returns, or ApiFailure for a call that gets no SUCCESS body.   *)
(***************************************************************************)
ApiFailure == [k |-> "failure"]

\* a response whose status is SUCCESS
IsSuccess(response) == response.k = "dict"

ValueError(message) == [k |-> "raise", e |-> "ValueError", msg |-> message]

\* send_error_email: it sends the emails and ends by raising
\* ValueError(error_message)
send_error_email(error_message) ==
    [k |-> "raise", e |-> "ValueError", msg |-> error_message, sent |-> "error email"]

\* call_api: the response data, or what send_error_email raises
call_api(response) ==
    IF IsSuccess(response) THEN response ELSE send_error_email("API Response Error")

\* a variant of the status scan that keeps looking after a match
RECURSIVE last_status_from(_, _, _, _)
last_status_from(statuses, n, target_name, found) ==
    IF n > Len(statuses) THEN found
    ELSE LET name == Get(statuses[n], "name")
         IN IF ~IsStr(name) THEN Raise("AttributeError")
            ELSE last_status_from(statuses, n + 1, target_name,
                    IF Lower(name.s) = Lower(target_name)
                    THEN Get(statuses[n], "id") ELSE found)

\* the for loop of _get_status_id from the n-th status on
RECURSIVE status_from(_, _, _, _)
status_from(statuses, n, target_name, found) ==
    IF n > Len(statuses) THEN found
    ELSE LET name == Get(statuses[n], "name")
         IN IF ~IsStr(name) THEN Raise("AttributeError")
            ELSE IF Lower(name.s) = Lower(target_name) THEN Get(statuses[n], "id")
            ELSE status_from(statuses, n + 1, target_name, found)

get_status_id(data, target_name) ==
    status_from(IF "statuses" \in DOMAIN data THEN data["statuses"] ELSE <<>>,
                1, target_name, None)

\* value == target_name
equal_name(value, target_name) == value = Str(target_name)

\* the for loop of _get_source_id from the n-th item on; a dict is the
\* sequence of its items, <<key, value>>, in insertion order
RECURSIVE source_from(_, _, _)
source_from(items, n, target_name) ==
    IF n > Len(items) THEN None
    ELSE IF equal_name(items[n][2], target_name) THEN items[n][1]
    ELSE source_from(items, n + 1, target_name)

get_source_id(data, target_name) ==
    LET sources == IF "sources" \in DOMAIN data THEN data["sources"] ELSE EmptyDict
    IN source_from(IF "personal" \in DOMAIN sources THEN sources["personal"] ELSE <<>>,
                   1, target_name)

\* ", ".join(fields)
RECURSIVE Join(_)
Join(fields) ==
    IF fields = <<>> THEN ""
    ELSE IF Len(fields) = 1 THEN fields[1]
    ELSE fields[1] \o ", " \o Join(Tail(fields))

\* next(item for item in extra_fields_response if item["name"] == field), or None
RECURSIVE field_entry_from(_, _, _)
field_entry_from(extra_fields_response, n, field) ==
    IF n > Len(extra_fields_response) THEN None
    ELSE IF extra_fields_response[n]["name"] = Str(field) THEN extra_fields_response[n]
    ELSE field_entry_from(extra_fields_response, n + 1, field)

\* the for loop of _process_extra_fields from the n-th name on
RECURSIVE extra_fields_from(_, _, _, _)
extra_fields_from(extra_fields_response, extra_fields, n, acc) ==
    IF n > Len(extra_fields) THEN acc
    ELSE LET field_entry == field_entry_from(extra_fields_response, 1, extra_fields[n])
         IN extra_fields_from(extra_fields_response, extra_fields, n + 1,
                IF field_entry # None
                THEN [acc EXCEPT !.field_mapping =
                        Put(@, extra_fields[n], field_entry["extra_field_id"])]
                ELSE [acc EXCEPT !.missing_fields = Append(@, extra_fields[n])])

\* a variant of the end of _process_extra_fields that returns the mapping
\* without the fields it has missed
mapping_without_missing(looped) == [field_mapping |-> looped.field_mapping, exc |-> None]

\* lines 736-741: the mapping returned, or what send_error_email raises
mapping_or_error(looped) ==
    IF looped.missing_fields # <<>>
    THEN [field_mapping |-> None,
          exc |-> send_error_email("Missing fields in response: "
                                   \o Join(looped.missing_fields))]
    ELSE [field_mapping |-> looped.field_mapping, exc |-> None]

process_extra_fields(data, extra_fields) ==
    mapping_or_error(
        extra_fields_from(IF "extra_fields" \in DOMAIN data THEN data["extra_fields"] ELSE <<>>,
                          extra_fields, 1,
                          [field_mapping |-> EmptyDict, missing_fields |-> <<>>]))

\* the names create_order asks for
required_extra_fields == <<"PO Number", "PO Expiry", "Sender Mail">>

\* self.extracted_data.get('po')
target_po_number(data) == Get(data, "po")

\* the for loop of _check_order_exists from the n-th order on: None, or what
\* send_error_email raises for the first order that has the PO number
RECURSIVE existing_order_from(_, _, _, _)
existing_order_from(orders, n, field_id, target) ==
    IF n > Len(orders) THEN None
    ELSE LET fields == IF "custom_extra_fields" \in DOMAIN orders[n]
                       THEN orders[n]["custom_extra_fields"] ELSE EmptyDict
         IN IF Get(fields, field_id) = Str(PyStr(target))
            THEN send_error_email("Order exists with ID: " \o PyStr(orders[n]["order_id"]))
            ELSE existing_order_from(orders, n + 1, field_id, target)

\* _check_order_exists on the responses of its two calls: None, or what it raises
check_order_exists(data, extra_field_mapping, sources_response, orders_response) ==
    IF IsRaise(call_api(sources_response)) THEN call_api(sources_response)
    ELSE IF IsRaise(call_api(orders_response)) THEN call_api(orders_response)
    ELSE existing_order_from(
            IF "orders" \in DOMAIN orders_response THEN orders_response["orders"] ELSE <<>>,
            1, PyStr(Get(extra_field_mapping, "PO Number")), target_po_number(data))

(***************************************************************************)
(* The address normalizer on its own: one call on a text put together from *)
(* at most MaxPieces pieces, and a second call on the text it returned.    *)
(***************************************************************************)
MaxPieces == 3

AddressPieces ==
    {"Goa", "goa", "Assam", "560001", "7", "x", " ", ",", "\n", "GSTIN No: "}

SpecExample == "123 MG Road, Bangalore, Karnataka 560001, GSTIN No: 29ABCDE1234F1Z5"

RECURSIVE Texts(_)
Texts(n) ==
    IF n = 0 THEN {""}
    ELSE Texts(n - 1) \cup {t \o p : t \in Texts(n - 1), p \in AddressPieces}

\* longer texts: the example, an address with runs of whitespace and pairs
\* of commas, and texts with three commas or a label next to a comma or
\* inside another label
AddressExamples == {
    SpecExample,
    "Flat 4,, MG Road , ,Goa  403001,\n",
    "a,,,b",
    "a,GSTIN No: ,b",
    "x,GSTIN No: ",
    "GSTIN GSTIN No: NO:" }

AddressInputs == {None} \cup {Str(t) : t \in Texts(MaxPieces) \cup AddressExamples}

\* FlipkartPOParser.__init__, before any document
NoDocument ==
    /\ df = None
    /\ extracted_data = EmptyDict
    /\ order_details_index = None
    /\ calculated_total = 0
    /\ sku_map = EmptyDict
    /\ order_json = None

\* self.checklist as __init__ makes it
NoChecklist ==
    [step \in {"Download File", "Fetch Order Status Id", "Fetch Order Source Id",
               "Check And Fetch Custom Field", "Parse file",
               "Check if a order already exist", "Create Order Json", "Create order"}
        |-> FALSE]

\* create_order has resolved nothing
NoLookups == [status_id |-> None, source_id |-> None, extra_field_mapping |-> None]

\* run has not fetched the emails
NoRun ==
    /\ new_emails = <<>>
    /\ email_id = 0
    /\ folders = <<>>
    /\ lookups = NoLookups
    /\ requests = <<>>
    /\ base = EmptyDict
    /\ orders_added = <<>>

\* lambda_handler has not been invoked
NoLambda ==
    /\ lambda_pc = "not_invoked"
    /\ email_cred = None
    /\ client_configs = None
    /\ client = 0
    /\ attempted = <<>>
    /\ outcomes = <<>>
    /\ result = None

InitAddress ==
    /\ pc = "normalize"
    /\ exc = None
    /\ address_arg \in AddressInputs
    /\ address_ret = None
    /\ NoDocument
    /\ checklist = NoChecklist
    /\ NoRun
    /\ NoLambda

Normalize ==
    /\ pc = "normalize"
    /\ address_ret' = extract_details_from_address(address_arg)
    /\ pc' = "normalized"
    /\ UNCHANGED <<exc, address_arg, df, extracted_data, order_details_index,
                   calculated_total, sku_map, order_json, checklist, run_vars, lambda_vars>>

\* the normalizer applied to the address_arg text it has just returned
NormalizeAgain ==
    /\ pc = "normalized"
    /\ address_arg' = Str(address_ret.address)
    /\ address_ret' = extract_details_from_address(address_arg')
    /\ pc' = "renormalized"
    /\ UNCHANGED <<exc, df, extracted_data, order_details_index,
                   calculated_total, sku_map, order_json, checklist, run_vars, lambda_vars>>

NextAddress == Normalize \/ NormalizeAgain

SpecAddress == InitAddress /\ [][NextAddress]_vars

(***************************************************************************)
(* process_po_file on one document of a fresh parser: the scan for the     *)
(* header fields, the line items, the addresses.  A document is the        *)
(* DataFrame of a sheet of three columns, of one of three kinds: at most   *)
(* MaxHeadRows rows of HeadRows, then a well-formed table; at most         *)
(* MaxAddressRows rows of AddressRows, a boundary row, a well-formed       *)
(* table; a boundary row, then at most MaxTableRows rows of TableRows.     *)
(***************************************************************************)
MaxHeadRows == 3
MaxAddressRows == 2
MaxTableRows == 4

Frame(columns, rows) == [k |-> "frame", columns |-> columns, rows |-> rows]

HeadRows == {
    <<Str("PO#"), Str("A1"), NaN>>,
    <<Str("PO#"), NaN, Str("A2")>>,
    <<NaN, Str("PO#"), Str("A3")>>,
    <<Num(7), Str("PO#"), Str("A4")>>,
    <<Str("x"), Str("PO#"), Str("A5")>>,
    <<Str("x"), NaN, Str("PO#")>>,
    <<Str("ORDER DETAILS"), NaN, NaN>>,
    <<NaN, Str("** ORDER DETAILS **"), NaN>>,
    <<Str("PO#"), Str("ORDER DETAILS"), Str("A6")>>,
    <<Str("x"), Str("ORDER DETAILS"), Str("PO#")>> }

AddressRows == {
    <<Str("BILLED TO ADDRESS"), Str(""), Str("SHIPPED TO ADDRESS")>>,
    <<Str("BILLED TO ADDRESS"), NaN, Str("x Goa 560001")>>,
    <<Str("SHIPPED TO ADDRESS"), Str("12 MG Road,, Assam"), NaN>>,
    <<Str("SUPPLIER ADDRESS"), NaN, NaN>>,
    <<Str("SUPPLIER ADDRESS"), Str("Delhi 110001"), NaN>>,
    <<Str("SUPPLIER ADDRESS"), Num(7), NaN>>,
    <<Str("x"), Str("SUPPLIER ADDRESS"), Num(0)>> }

TableRows == {
    <<Str("Title"), Str("Quantity"), Str("Total Amount")>>,
    <<Str("Soap"), Str("2"), Str("10.00")>>,
    <<Str("Important Notification Total="), Str("Total Quantity="), Num(2)>>,
    <<Str("Total="), Str("INR 10.00"), Str("see Important Notification")>>,
    <<Str("Total="), NaN, Str("INR 9.00")>> }

PlainColumns == <<Str("Unnamed: 0"), Str("Unnamed: 1"), Str("Unnamed: 2")>>
MarkedColumns == <<Str("Important Notification"), Str("Unnamed: 1"), Str("Unnamed: 2")>>

PlainBoundary == << <<Str("ORDER DETAILS"), NaN, NaN>> >>

PlainTable == <<
    <<Str("Title"), Str("Quantity"), Str("Total Amount")>>,
    <<Str("Soap"), Str("2"), Str("10.00")>>,
    <<NaN, NaN, Str("INR 10.00")>>,
    <<Str("Important Notification"), Str("Total="), Str("INR 10.00")>> >>

\* the sequences of at most n members of S
RECURSIVE SeqsUpTo(_, _)
SeqsUpTo(S, n) ==
    IF n = 0 THEN {<<>>}
    ELSE SeqsUpTo(S, n - 1) \cup {Append(seq, x) : seq \in SeqsUpTo(S, n - 1), x \in S}

Documents ==
    {Frame(PlainColumns, head \o PlainTable) : head \in SeqsUpTo(HeadRows, MaxHeadRows)}
    \cup {Frame(PlainColumns, head \o PlainBoundary \o PlainTable) :
            head \in SeqsUpTo(AddressRows, MaxAddressRows)}
    \cup {Frame(columns, PlainBoundary \o table) :
            columns \in {PlainColumns, MarkedColumns},
            table \in SeqsUpTo(TableRows, MaxTableRows)}

InitParse ==
    /\ pc = "extract_order_details"
    /\ exc = None
    /\ address_arg = None
    /\ address_ret = None
    /\ df \in Documents
    /\ extracted_data = EmptyDict
    /\ order_details_index = None
    /\ calculated_total = 0
    /\ sku_map = EmptyDict
    /\ order_json = None
    /\ checklist = NoChecklist
    /\ NoRun
    /\ NoLambda

\* a variant that goes on after an exception, as if it had been swallowed
swallowed(e, next) == next

\* where process_po_file goes after a call that ended with exception e
After(e, next) == IF e = None THEN next ELSE "raised"

\* the exception e as it leaves the method named by: its traceback tells where
\* it was raised
Traceback(e, by) ==
    IF e = None THEN None
    ELSE [x \in DOMAIN e \cup {"by"} |-> IF x = "by" THEN by ELSE e[x]]

ExtractOrderDetails ==
    /\ pc = "extract_order_details"
    /\ LET r == extract_order_details(extracted_data, order_details_index, df)
       IN /\ extracted_data' = r.data
          /\ order_details_index' = r.order_details_index
          /\ exc' = Traceback(r.exc, "_extract_order_details")
          /\ pc' = After(r.exc, "process_line_items")
    /\ UNCHANGED <<address_arg, address_ret, df, calculated_total, sku_map, order_json,
                   checklist, run_vars, lambda_vars>>

ProcessLineItems ==
    /\ pc = "process_line_items"
    /\ LET r == process_line_items(extracted_data, order_details_index, df)
       IN /\ extracted_data' = r.data
          /\ exc' = Traceback(r.exc, "_process_line_items")
          /\ pc' = After(r.exc, "process_addresses")
    /\ UNCHANGED <<address_arg, address_ret, df, order_details_index,
                   calculated_total, sku_map, order_json, checklist, run_vars, lambda_vars>>

\* the step of self.checklist is done unless the call ended with exception e
Checked(e, step) == IF e = None THEN [checklist EXCEPT ![step] = TRUE] ELSE checklist

\* the last call of process_po_file, and the "Parse file" step after it
ProcessAddresses ==
    /\ pc = "process_addresses"
    /\ LET r == process_addresses(extracted_data)
       IN /\ extracted_data' = r.data
          /\ exc' = Traceback(r.exc, "_process_addresses")
          /\ checklist' = Checked(r.exc, "Parse file")
          /\ pc' = After(r.exc, "parsed")
    /\ UNCHANGED <<address_arg, address_ret, df, order_details_index,
                   calculated_total, sku_map, order_json, run_vars, lambda_vars>>

NextParse == ExtractOrderDetails \/ ProcessLineItems \/ ProcessAddresses

SpecParse == InitParse /\ [][NextParse]_vars

(***************************************************************************)
(* _create_order_json on the data of a parsed document.  The line items    *)
(* are at most MaxProducts rows of ProductRows and a row of TotalRows, or  *)
(* none at all; the parser is fresh or has assembled an order before.      *)
(***************************************************************************)
MaxProducts == 2

ItemLabels ==
    <<Str("Title"), Str("FSN/ISBN13"), Str("Quantity"), Str("Total Amount"), Str("IGST Rate")>>

ProductRows == {
    <<Str("Soap"), Str("SOAP 1"), Str("2"), Str("10.00"), Str("5%")>>,
    <<Str("Tea"), Str("TEA2"), Str("3"), Str("1,000.00"), Str("2.5%")>>,
    <<Str("Oil"), Str("SOAP 1"), Str("4"), Str("0.10"), Str("0%")>>,
    <<Str("Rice"), Str("RICE"), Str("0"), Str("5.00"), Str("0%")>>,
    <<Str("Salt"), Str("SALT"), Num(2), Str("6.00"), Str("0%")>>,
    <<Str("Gum"), Str("GUM"), Str("1"), Str("7.25"), NaN>> }

TotalAmounts == {
    Str("INR 10.00"), Str("INR 15.00"), Str("INR 15.01"), Str("INR 5.00"),
    Str("INR 994.99"), Str("INR 1,000.00"), NaN }

TotalRow(amount) == <<Str("Total"), NaN, Str("5"), amount, NaN>>

\* a table with a column for each of the three tax rates
TaxLabels ==
    <<Str("Title"), Str("FSN/ISBN13"), Str("Quantity"), Str("Total Amount"),
      Str("SGST/UTGST Rate"), Str("CGST Rate"), Str("IGST Rate")>>

TaxedRows == {
    <<Str("Ghee"), Str(" GH EE 1"), Str("1"), Str("8.00"), Str("2.5%"), Str("2.5%"), Str("0%")>>,
    <<Str("Milk"), Str("MILK"), Str("1"), Str("4.00"), Str("6%"), NaN, Str("0%")>>,
    <<Str("Nuts"), Str("NU\tTS\n 1"), Str("2"), Str("3.00"), Str("9%"), Str("9%"), Str("1%")>> }

TaxedTotalRow(amount) == <<Str("Total"), NaN, Str("5"), amount, NaN, NaN, NaN>>

LineItemLists ==
    {<<>>} \cup
    {[i \in 1..(Len(rows) + 1) |->
        Record(ItemLabels, IF i <= Len(rows) THEN rows[i] ELSE TotalRow(amount))] :
            rows \in SeqsUpTo(ProductRows, MaxProducts), amount \in TotalAmounts}
    \cup
    {[i \in 1..(Len(rows) + 1) |->
        Record(TaxLabels, IF i <= Len(rows) THEN rows[i] ELSE TaxedTotalRow(amount))] :
            rows \in SeqsUpTo(TaxedRows, MaxProducts), amount \in TotalAmounts}

OrderDates == {Str(" 05-02-24 "), Str("2024-02-05"), Str("30-02-24"), None}

\* self.extracted_data after process_po_file
Parsed(order_date, line_items) ==
    LET fields == ("po#" :> Str("A1")) @@ ("po_expiry" :> Str("31-03-24"))
                  @@ ("supplier_name" :> Str("Acme"))
                  @@ ("billed_to_address" :> AddressDict("x", Str("560001"), Str("Goa")))
                  @@ ("shipped_to_address" :> AddressDict("y", None, Str("Assam")))
                  @@ ("supplier_address" :> AddressDict("", None, None))
                  @@ ("Line_Items" :> List(line_items))
                  @@ ("total=" :> Str("INR 10.00"))
    IN IF order_date = None THEN fields ELSE Put(fields, "order_date", order_date)

OrderInputs ==
    {Parsed(Str("05-02-24"), line_items) : line_items \in LineItemLists}
    \cup {Parsed(order_date, <<Record(ItemLabels, TotalRow(Str("INR 0.00")))>>) :
            order_date \in OrderDates}

\* the arguments create_order passes: the ids the API has resolved
StatusIds == {Num(8)}
SourceIds == {Str("77")}
ExtraFieldMappings ==
    {("PO Number" :> Num(41)) @@ ("PO Expiry" :> Num(42)) @@ ("Sender Mail" :> Num(43))}

\* self.checklist when create_order has come to line 686
ChecklistBeforeOrderJson ==
    [step \in DOMAIN NoChecklist |->
        step \in {"Parse file", "Fetch Order Status Id", "Fetch Order Source Id",
                  "Check And Fetch Custom Field", "Check if a order already exist"}]

InitOrderJson ==
    /\ pc = "create_order_json"
    /\ exc = None
    /\ address_arg = None
    /\ address_ret = None
    /\ df = None
    /\ extracted_data \in OrderInputs
    /\ order_details_index = Num(0)
    /\ \/ calculated_total = 0 /\ sku_map = EmptyDict
       \/ calculated_total = 1000 /\ sku_map = ("SOAP1" :> 500)
    /\ order_json = None
    /\ checklist = ChecklistBeforeOrderJson
    /\ new_emails = <<>>
    /\ email_id = 0
    /\ folders = <<>>
    /\ lookups \in [status_id : StatusIds, source_id : SourceIds,
                     extra_field_mapping : ExtraFieldMappings]
    /\ requests = <<>>
    /\ base = EmptyDict
    /\ orders_added = <<>>
    /\ NoLambda

\* the call of line 686, and the "Create Order Json" step after it
CreateOrderJson ==
    /\ pc = "create_order_json"
    /\ \E r \in create_order_json(extracted_data, calculated_total, sku_map,
                                   lookups.status_id, lookups.source_id,
                                   lookups.extra_field_mapping) :
          /\ order_json' = r.order_json
          /\ calculated_total' = r.calculated_total
          /\ sku_map' = r.sku_map
          /\ exc' = Traceback(r.exc, "_create_order_json")
          /\ checklist' = Checked(r.exc, "Create Order Json")
          /\ pc' = After(r.exc, "order_json_created")
    /\ UNCHANGED <<address_arg, address_ret, df, extracted_data, order_details_index,
                   run_vars, lambda_vars>>

NextOrderJson == CreateOrderJson

SpecOrderJson == InitOrderJson /\ [][NextOrderJson]_vars

(***************************************************************************)
(* create_order on the data of a parsed document: the four lookups, the    *)
(* order JSON, addOrder.  Each call of call_api gets what the Base system  *)
(* answers to the method, or fails.                                        *)
(***************************************************************************)
\* what the API can answer to a method
Answers(method) == {base[method], ApiFailure}

\* the value, or ValueError(message) for one that is not truthy
required(value, message) ==
    IF IsRaise(value) THEN Traceback(value, "create_order")
    ELSE IF ~Truthy(value) THEN Traceback(ValueError(message), "create_order")
    ELSE value

\* lines 652-655
status_id_of(response) ==
    IF IsSuccess(response)
    THEN required(get_status_id(response, "New orders"), "Status 'New orders' not found")
    ELSE Traceback(call_api(response), "call_api")

\* lines 661-664
source_id_of(response) ==
    IF IsSuccess(response)
    THEN required(get_source_id(response, "FLIPKART GROCERY"),
                  "Order source 'FLIPKART GROCERY' not found")
    ELSE Traceback(call_api(response), "call_api")

\* lines 670-674
extra_field_mapping_of(response) ==
    IF IsSuccess(response)
    THEN process_extra_fields(response, required_extra_fields)
    ELSE [field_mapping |-> None, exc |-> call_api(response)]

\* create_order goes on after a call that has set its local to value and ended
\* with exception e, raised in the method named by
Continue(local, value, e, by, step, next) ==
    /\ lookups' = IF e = None THEN [lookups EXCEPT ![local] = value] ELSE lookups
    /\ exc' = Traceback(e, by)
    /\ checklist' = Checked(e, step)
    /\ pc' = After(e, next)

\* the value of a lookup, and the exception it is if it is one
Resolved(local, value, step, next) ==
    Continue(local, value, IF IsRaise(value) THEN value ELSE None, value.by, step, next)

FetchOrderStatusId ==
    /\ pc = "parsed"
    /\ \E response \in Answers("getOrderStatusList") :
          Resolved("status_id", status_id_of(response),
                   "Fetch Order Status Id", "fetch_order_source_id")
    /\ requests' = Append(requests, "getOrderStatusList")
    /\ UNCHANGED <<address_arg, address_ret, df, extracted_data, order_details_index,
                   calculated_total, sku_map, order_json, new_emails, email_id,
                   folders, base, orders_added, lambda_vars>>

FetchOrderSourceId ==
    /\ pc = "fetch_order_source_id"
    /\ \E response \in Answers("getOrderSources") :
          Resolved("source_id", source_id_of(response),
                   "Fetch Order Source Id", "fetch_extra_fields")
    /\ requests' = Append(requests, "getOrderSources")
    /\ UNCHANGED <<address_arg, address_ret, df, extracted_data, order_details_index,
                   calculated_total, sku_map, order_json, new_emails, email_id,
                   folders, base, orders_added, lambda_vars>>

\* the mapping _process_extra_fields returned or the exception that ended it
Mapped(r, by) ==
    Continue("extra_field_mapping", r.field_mapping, r.exc, by,
             "Check And Fetch Custom Field", "check_order_exists")

FetchExtraFields ==
    /\ pc = "fetch_extra_fields"
    /\ \E response \in Answers("getOrderExtraFields") :
          Mapped(extra_field_mapping_of(response),
                 IF IsSuccess(response) THEN "_process_extra_fields" ELSE "call_api")
    /\ requests' = Append(requests, "getOrderExtraFields")
    /\ UNCHANGED <<address_arg, address_ret, df, extracted_data, order_details_index,
                   calculated_total, sku_map, order_json, new_emails, email_id,
                   folders, base, orders_added, lambda_vars>>

CheckOrderExists ==
    /\ pc = "check_order_exists"
    /\ \E sources_response \in Answers("getOrderSources"),
          orders_response \in Answers("getOrders") :
          /\ Continue("extra_field_mapping", lookups.extra_field_mapping,
                      check_order_exists(extracted_data, lookups.extra_field_mapping,
                                         sources_response, orders_response),
                      "_check_order_exists",
                      "Check if a order already exist", "create_order_json")
          /\ requests' = IF IsSuccess(sources_response)
                         THEN requests \o <<"getOrderSources", "getOrders">>
                         ELSE Append(requests, "getOrderSources")
    /\ UNCHANGED <<address_arg, address_ret, df, extracted_data, order_details_index,
                   calculated_total, sku_map, order_json, new_emails, email_id,
                   folders, base, orders_added, lambda_vars>>

\* what the SMTP session of send_success_email does: it sends the email or
\* raises, and the except at lines 310-312 raises that again
smtp_outcomes == {None, Raise("SMTPException")}

\* lines 692-699: a response is the dict of a SUCCESS body, so it is truthy;
\* the Base system holds the order from then on, and send_success_email
\* follows
AddOrder ==
    /\ pc = "order_json_created"
    /\ \E response \in Answers("addOrder"), sent \in smtp_outcomes :
          /\ exc' = IF IsSuccess(response) THEN Traceback(sent, "send_success_email")
                    ELSE Traceback(call_api(response), "call_api")
          /\ checklist' = IF IsSuccess(response)
                          THEN [checklist EXCEPT !["Create order"] = TRUE] ELSE checklist
          /\ orders_added' = IF IsSuccess(response)
                             THEN Append(orders_added, email_id) ELSE orders_added
          /\ pc' = IF IsSuccess(response) THEN After(sent, "created") ELSE "raised"
    /\ requests' = Append(requests, "addOrder")
    /\ UNCHANGED <<address_arg, address_ret, df, extracted_data, order_details_index,
                   calculated_total, sku_map, order_json, new_emails, email_id,
                   folders, lookups, base, lambda_vars>>

(***************************************************************************)
(* What the Base system holds: statuses, order sources, extra fields and   *)
(* orders, each a list of at most a bounded number of entries.             *)
(***************************************************************************)
MaxStatuses == 2
MaxSources == 2
MaxExtraFields == 3
MaxOrders == 2

Status(name, id) == [name |-> Str(name), id |-> Num(id)]

StatusEntries ==
    {Status("New Orders", 8), Status("new orders", 9), Status("Old orders", 5),
     Status("New orders ", 7)}

SourceItems ==
    {<<Str("77"), Str("FLIPKART GROCERY")>>, <<Str("78"), Str("Flipkart Grocery")>>,
     <<Str("79"), Str("FLIPKART GROCERY")>>, <<Str("80"), Str("AMAZON")>>}

ExtraField(name, id) == [name |-> Str(name), extra_field_id |-> Num(id)]

ExtraFieldEntries ==
    {ExtraField("PO Number", 41), ExtraField("PO Expiry", 42),
     ExtraField("Sender Mail", 43), ExtraField("PO number", 44)}

Order(id, fields) == [order_id |-> Num(id), custom_extra_fields |-> fields]

OrderEntries ==
    {Order(900, ("41" :> Str("A1"))), Order(901, ("41" :> Str("B2"))),
     Order(902, ("41" :> Str("None"))), Order(903, ("42" :> Str("A1"))),
     [order_id |-> Num(904)]}

\* the dicts of the four responses
StatusList(statuses) == [k |-> "dict", statuses |-> statuses]
Sources(items) == [k |-> "dict", sources |-> [personal |-> items]]
ExtraFields(entries) == [k |-> "dict", extra_fields |-> entries]
Orders(orders) == [k |-> "dict", orders |-> orders]

\* a dict has every key once
DistinctKeys(items) ==
    \A i, j \in 1..Len(items) : items[i][1] = items[j][1] => i = j

Base(statuses, sources, extra_fields, orders) ==
    [getOrderStatusList |-> statuses,
     getOrderSources |-> sources,
     getOrderExtraFields |-> extra_fields,
     getOrders |-> orders,
     addOrder |-> [k |-> "dict", order_id |-> Num(1000)]]

GoodStatuses == StatusList(<<Status("Old orders", 5), Status("New orders", 8)>>)
GoodSources == Sources(<<<<Str("80"), Str("AMAZON")>>, <<Str("77"), Str("FLIPKART GROCERY")>>>>)
GoodExtraFields ==
    ExtraFields(<<ExtraField("PO Number", 41), ExtraField("PO Expiry", 42),
                  ExtraField("Sender Mail", 43)>>)
NoOrders == Orders(<<>>)

\* one of the four responses varies, the others are good
Bases ==
    {Base(s, GoodSources, GoodExtraFields, NoOrders) :
        s \in {[k |-> "dict"]} \cup
              {StatusList(statuses) : statuses \in SeqsUpTo(StatusEntries, MaxStatuses)}}
    \cup {Base(GoodStatuses, s, GoodExtraFields, NoOrders) :
        s \in {[k |-> "dict"], [k |-> "dict", sources |-> [bl |-> <<>>]]} \cup
              {Sources(items) : items \in {i \in SeqsUpTo(SourceItems, MaxSources) :
                                              DistinctKeys(i)}}}
    \cup {Base(GoodStatuses, GoodSources, s, NoOrders) :
        s \in {[k |-> "dict"]} \cup
              {ExtraFields(entries) :
                  entries \in SeqsUpTo(ExtraFieldEntries, MaxExtraFields)}}
    \cup {Base(GoodStatuses, GoodSources, GoodExtraFields, s) :
        s \in {[k |-> "dict"]} \cup
              {Orders(orders) : orders \in SeqsUpTo(OrderEntries, MaxOrders)}}
    \cup {Base(StatusList(<<Status("new orders", 9), Status("New Orders", 8)>>),
                Sources(<<<<Str("78"), Str("Flipkart Grocery")>>,
                          <<Str("79"), Str("FLIPKART GROCERY")>>>>),
                GoodExtraFields, NoOrders)}

\* self.extracted_data after process_po_file, for a table that reconciles and
\* for one that does not
CreateOrderInputs ==
    {Parsed(Str("05-02-24"),
            <<Record(ItemLabels, <<Str("Soap"), Str("SOAP 1"), Str("2"), Str("10.00"), Str("5%")>>),
              Record(ItemLabels, TotalRow(amount))>>) :
        amount \in {Str("INR 10.00"), Str("INR 15.01")}}

\* self.checklist when process_po_file has returned to a fresh parser
ChecklistParsed == [step \in DOMAIN NoChecklist |-> step = "Parse file"]

InitCreateOrder ==
    /\ pc = "parsed"
    /\ exc = None
    /\ address_arg = None
    /\ address_ret = None
    /\ df = None
    /\ extracted_data \in CreateOrderInputs
    /\ order_details_index = Num(0)
    /\ calculated_total = 0
    /\ sku_map = EmptyDict
    /\ order_json = None
    /\ checklist = ChecklistParsed
    /\ new_emails = <<>>
    /\ email_id = 0
    /\ folders = <<>>
    /\ lookups = NoLookups
    /\ requests = <<>>
    /\ base \in Bases
    /\ orders_added = <<>>
    /\ NoLambda

NextCreateOrder ==
    \/ FetchOrderStatusId
    \/ FetchOrderSourceId
    \/ FetchExtraFields
    \/ CheckOrderExists
    \/ CreateOrderJson
    \/ AddOrder

SpecCreateOrder == InitCreateOrder /\ [][NextCreateOrder]_vars

(***************************************************************************)
(* run: the loop over the emails of the NEW folder, at most MaxEmails of   *)
(* them, each with the sheet of its .xls attachment or with none; one      *)
(* parser processes them all.                                              *)
(***************************************************************************)
MaxEmails == 2

WideColumns ==
    <<Str("Unnamed: 0"), Str("Unnamed: 1"), Str("Unnamed: 2"), Str("Unnamed: 3"),
      Str("Unnamed: 4")>>

WideBoundary == <<Str("ORDER DETAILS"), NaN, NaN, NaN, NaN>>

\* the rows after the boundary: the labels, one product, the total row, the
\* row of the notification
WideTable(product, amount) ==
    <<ItemLabels,
      product,
      TotalRow(amount),
      <<Str("Important Notification"), Str("Total Quantity="), Num(2), Str("Total="), amount>> >>

PoRow(po, date) == <<Str("PO#"), Str(po), Str("ORDER DATE"), Str(date), NaN>>

ExpiryRow == <<Str("PO Expiry"), Str("31-03-24"), Str("SUPPLIER NAME"), Str("Acme"), NaN>>

AddressRow ==
    <<Str("BILLED TO ADDRESS"), Str("x Goa 560001"), Str("SUPPLIER ADDRESS"), Str("Delhi"), NaN>>

ShippedRow(address) == <<Str("SHIPPED TO ADDRESS"), Str(address), NaN, NaN, NaN>>

Soap == <<Str("Soap"), Str("SOAP 1"), Str("2"), Str("10.00"), Str("5%")>>
Salt == <<Str("Salt"), Str("SALT"), Str("2"), Str("6.00"), Str("0%")>>

\* a sheet with every field; one without 'PO Expiry'; one without 'SHIPPED TO
\* ADDRESS'; one whose total does not match; one without 'ORDER DETAILS'
RunDocuments ==
    {Frame(WideColumns, <<PoRow("A1", "05-02-24"), ExpiryRow, AddressRow,
                          ShippedRow("12 MG Road, Assam"), WideBoundary>>
                          \o WideTable(Soap, Str("INR 10.00"))),
     Frame(WideColumns, <<PoRow("B2", "06-02-24"), AddressRow, ShippedRow("Goa 403001"),
                          WideBoundary>> \o WideTable(Salt, Str("INR 6.00"))),
     Frame(WideColumns, <<PoRow("C3", "07-02-24"), ExpiryRow, AddressRow, WideBoundary>>
                          \o WideTable(Soap, Str("INR 10.00"))),
     Frame(WideColumns, <<PoRow("M4", "08-02-24"), ExpiryRow, AddressRow,
                          ShippedRow("Pune"), WideBoundary>>
                          \o WideTable(Soap, Str("INR 15.01"))),
     Frame(WideColumns, <<PoRow("N5", "09-02-24"), AddressRow>>)}

\* process_email returns no required_files for an email without .xls attachment
RunEmails == RunDocuments \cup {None}

RunBases == {Base(GoodStatuses, GoodSources, GoodExtraFields, NoOrders)}

InitRun ==
    /\ pc = "process_email"
    /\ exc = None
    /\ address_arg = None
    /\ address_ret = None
    /\ NoDocument
    /\ checklist = NoChecklist
    /\ new_emails \in SeqsUpTo(RunEmails, MaxEmails)
    /\ email_id = 1
    /\ folders = [i \in 1..Len(new_emails) |-> "NEW"]
    /\ lookups = NoLookups
    /\ requests = <<>>
    /\ base \in RunBases
    /\ orders_added = <<>>
    /\ NoLambda

\* what the IMAP session does in process_email (with the upload of the
\* attachment) and in move_email: the call goes through, or it raises and
\* the except of the method raises that again.  A move that raises has moved
\* nothing.
imap_outcomes == {None, Raise("IMAP4.abort")}

\* a variant of the move that files every email under PROCESSED
filed_as_processed(labelled, id, outcome, new_label) ==
    [labelled EXCEPT ![id] = "PROCESSED"]

\* a variant of the move that leaves every email where it is
left_in_place(labelled, id, outcome, new_label) == labelled

\* move_email from the NEW label: the labels of the emails after it
move_email(labelled, id, outcome, new_label) ==
    IF outcome = None THEN [labelled EXCEPT ![id] = new_label] ELSE labelled

\* lines 887-893: the next email of the loop; a failed process_email goes to
\* the except of the loop, an email without required files is skipped, the
\* sheet of another goes to process_po_file
ProcessEmail ==
    /\ pc = "process_email"
    /\ email_id <= Len(new_emails)
    /\ \E fetched \in imap_outcomes :
          /\ exc' = Traceback(fetched, "process_email")
          /\ IF fetched # None
             THEN /\ pc' = "raised"
                  /\ UNCHANGED <<email_id, df>>
             ELSE IF new_emails[email_id] = None
             THEN /\ email_id' = email_id + 1
                  /\ UNCHANGED <<pc, df>>
             ELSE /\ df' = new_emails[email_id]
                  /\ pc' = "extract_order_details"
                  /\ UNCHANGED email_id
    /\ order_json' = None
    /\ lookups' = NoLookups
    /\ requests' = <<>>
    /\ UNCHANGED <<address_arg, address_ret, extracted_data, order_details_index,
                   calculated_total, sku_map, checklist, new_emails, folders, base,
                   orders_added, lambda_vars>>

\* line 906, after create_order has returned; a move that raises goes to the
\* except of the loop
MoveToProcessed ==
    /\ pc = "created"
    /\ \E moved \in imap_outcomes :
          /\ exc' = Traceback(moved, "move_email")
          /\ pc' = After(moved, "process_email")
          /\ folders' = move_email(folders, email_id, moved, "PROCESSED")
          /\ email_id' = IF moved = None THEN email_id + 1 ELSE email_id
    /\ UNCHANGED <<address_arg, address_ret, df, extracted_data, order_details_index,
                   calculated_total, sku_map, order_json, checklist, new_emails,
                   lookups, requests, base, orders_added, lambda_vars>>

\* lines 908-912: the except of the loop; a move that raises here leaves the
\* loop and run raises it (lines 918-920)
MoveToFailed ==
    /\ pc = "raised"
    /\ \E moved \in imap_outcomes :
          /\ exc' = Traceback(moved, "run")
          /\ pc' = IF moved = None THEN "process_email" ELSE "run_raised"
          /\ folders' = move_email(folders, email_id, moved, "FAILED")
          /\ email_id' = IF moved = None THEN email_id + 1 ELSE email_id
    /\ UNCHANGED <<address_arg, address_ret, df, extracted_data, order_details_index,
                   calculated_total, sku_map, order_json, checklist, new_emails,
                   lookups, requests, base, orders_added, lambda_vars>>

\* lines 914-916, after the last email
Logout ==
    /\ pc = "process_email"
    /\ email_id > Len(new_emails)
    /\ pc' = "logged_out"
    /\ UNCHANGED <<exc, address_arg, address_ret, df, extracted_data, order_details_index,
                   calculated_total, sku_map, order_json, checklist, new_emails, email_id,
                   folders, lookups, requests, base, orders_added, lambda_vars>>

NextRun ==
    \/ ProcessEmail
    \/ ExtractOrderDetails
    \/ ProcessLineItems
    \/ ProcessAddresses
    \/ FetchOrderStatusId
    \/ FetchOrderSourceId
    \/ FetchExtraFields
    \/ CheckOrderExists
    \/ CreateOrderJson
    \/ AddOrder
    \/ MoveToProcessed
    \/ MoveToFailed
    \/ Logout

SpecRun == InitRun /\ [][NextRun]_vars

(***************************************************************************)
(* Properties of the address normalizer                                    *)
(***************************************************************************)
\* the call has returned a dict for a text argument
Normalized == pc \in {"normalized", "renormalized"} /\ IsStr(address_arg) /\ address_ret.k = "dict"

\* name stands in text at position i and no word character touches it
WholeWordAt(text, name, i) ==
    /\ Sub(text, i, i + Len(name) - 1) = name
    /\ ~IsWordChar(Ch(text, i + Len(name)))

\* the positions of text that follow no word character
AfterNonWord(text) == {i \in 1..Len(text) : ~IsWordChar(Ch(text, i - 1))}

\* a 6-digit token stands at position i of text
SixDigitsAt(text, i) ==
    /\ i + 5 <= Len(text)
    /\ \A j \in i..(i + 5) : Ch(text, j) \in DigitChars
    /\ ~IsWordChar(Ch(text, i - 1))
    /\ ~IsWordChar(Ch(text, i + 6))

HasPincode(text) == \E i \in 1..Len(text) : SixDigitsAt(text, i)
\* the listed regions that occur in text as whole words, whatever the letter case
RegionsIn(text) ==
    LET lowered == Lower(text)
        free == AfterNonWord(lowered)
    IN {n \in 1..Len(indian_states) :
            \E i \in free : WholeWordAt(lowered, indian_states_lower[n], i)}

SpecExampleCleaned == "123 MG Road, Bangalore, Karnataka 560001, 29ABCDE1234F1Z5"

\* C7 as stated: when a postal code or a region is found, the cleaned text
\* contains neither the matched postal-code token nor the matched region name
\* nor a "GSTIN NO:" label, and the returned values are those found.
C7_MatchesStripped ==
    Normalized =>
        /\ address_ret.pincode # None =>
                ~Contains(address_ret.address, address_ret.pincode.s)
        /\ address_ret.state # None =>
                ~Contains(Lower(address_ret.address), Lower(address_ret.state.s))
        /\ (address_ret.pincode # None \/ address_ret.state # None) =>
                ~Contains(Lower(address_ret.address), "gstin no:")

\* C7 as amended: the postal code and region returned are the ones found in
\* the raw text, the cleaned text still contains both (their first occurrence
\* is kept), and the example of the specification yields 560001, Karnataka and
\* its own text less the GSTIN label only.
C7_FirstOccurrenceKept ==
    Normalized =>
        /\ (address_ret.pincode # None) = HasPincode(address_arg.s)
        /\ address_ret.pincode # None =>
                /\ \E i \in 1..Len(address_arg.s) :
                        /\ SixDigitsAt(address_arg.s, i)
                        /\ \A j \in 1..(i - 1) : ~SixDigitsAt(address_arg.s, j)
                        /\ address_ret.pincode.s = Sub(address_arg.s, i, i + 5)
                /\ Contains(address_ret.address, address_ret.pincode.s)
        /\ (address_ret.state # None) = (RegionsIn(address_arg.s) # {})
        /\ address_ret.state # None =>
                /\ \E i \in AfterNonWord(address_arg.s) :
                        WholeWordAt(Lower(address_arg.s), Lower(address_ret.state.s), i)
                /\ Contains(Lower(address_ret.address), Lower(address_ret.state.s))
        /\ address_arg.s = SpecExample =>
                address_ret = AddressDict(SpecExampleCleaned, Str("560001"), Str("Karnataka"))

\* the example address has been normalized
C7_Witness ==
    /\ pc = "normalized"
    /\ address_arg = Str(SpecExample)
    /\ address_ret.pincode = Str("560001")
    /\ address_ret.state = Str("Karnataka")

\* C8: the region returned is the listed region that comes first in the
\* enumeration among those occurring in the text as whole words, whatever
\* their places in the text, and it is absent when none occurs.
C8_EnumerationOrderWins ==
    Normalized =>
        LET found == RegionsIn(address_arg.s)
        IN IF found = {} THEN address_ret.state = None
           ELSE \E n \in found :
                    /\ \A m \in found : n <= m
                    /\ address_ret.state = Str(indian_states[n])

\* a text in which Goa stands before Assam has been given the region Assam
C8_Witness ==
    /\ pc = "normalized"
    /\ address_arg = Str("Goa Assam")
    /\ address_ret.state = Str("Assam")

\* neither a postal code nor a region occurs in the argument, a non-empty text
PlainText == Normalized /\ address_arg.s # "" /\ ~HasPincode(address_arg.s) /\ RegionsIn(address_arg.s) = {}

\* nothing for the clean-up to change: no whitespace at either end, no two
\* whitespace characters in a row, no two commas with at most whitespace
\* between them, no comma at the end, no "GSTIN NO:" label
IsClean(text) ==
    /\ ~IsSpace(Ch(text, 1)) /\ ~IsSpace(Ch(text, Len(text)))
    /\ \A i \in 1..Len(text) :
            /\ ~(IsSpace(Ch(text, i)) /\ IsSpace(Ch(text, i + 1)))
            /\ Ch(text, i) = "," => /\ Ch(text, i + 1) # ","
                                   /\ ~(IsSpace(Ch(text, i + 1)) /\ Ch(text, i + 2) = ",")
    /\ Ch(text, Len(text)) # ","
    /\ ~Contains(Lower(text), "gstin no:")

\* C9 as stated: a non-empty text without postal code and region is returned
\* unchanged, with postal code and region absent.
C9_PlainTextUnchanged ==
    PlainText =>
        /\ address_ret.address = address_arg.s
        /\ address_ret.pincode = None
        /\ address_ret.state = None

\* C9 as amended: for a non-empty text without postal code and region the
\* postal code and region returned are absent, and the text is returned
\* unchanged when it is already clean; a second call on such a text changes
\* nothing either.
C9_CleanPlainTextUnchanged ==
    PlainText =>
        /\ address_ret.pincode = None
        /\ address_ret.state = None
        /\ IsClean(address_arg.s) => address_ret.address = address_arg.s

\* a clean text with a line break and a comma has gone through two calls
C9_Witness ==
    /\ pc = "renormalized"
    /\ PlainText
    /\ IsClean(address_arg.s)
    /\ Contains(address_arg.s, "\n") /\ Contains(address_arg.s, ",")
    /\ address_ret.address = address_arg.s

(***************************************************************************)
(* Properties of the scan for the header fields                            *)
(***************************************************************************)
\* the call named method has raised
RaisedBy(method) == pc = "raised" /\ exc.by = method

ScanFailed == RaisedBy("_extract_order_details")

\* cell is a text that contains text
HoldsText(cell, text) == IsStr(cell) /\ Contains(cell.s, text)

\* the rows of df (counted from 1) with a cell that contains text, and those
\* of them whose first cell is a text
RowsWith(text) ==
    {r \in 1..Len(df.rows) : \E c \in 1..Len(df.rows[r]) : HoldsText(df.rows[r][c], text)}
TextRowsWith(text) == {r \in RowsWith(text) : IsStr(df.rows[r][1])}

\* v is the first non-blank cell to the right of column c of row, or None
\* when all of them are blank
RightOf(row, c, v) ==
    \/ \E c2 \in (c + 1)..Len(row) :
          /\ row[c2] = v
          /\ v # NaN
          /\ \A c3 \in (c + 1)..(c2 - 1) : row[c3] = NaN
    \/ v = None /\ \A c2 \in (c + 1)..Len(row) : row[c2] = NaN

\* the cell at row r, column c is one of the recognized labels
LabelAt(r, c) == IsStr(df.rows[r][c]) /\ df.rows[r][c].s \in fields_to_extract

\* every recorded field is the label of a cell of the rows 1..last
RecordedUpTo(last) ==
    \A key \in DOMAIN extracted_data :
        \E r \in 1..last : \E c \in 1..Len(df.rows[r]) :
            LabelAt(r, c) /\ normalize_field_name(df.rows[r][c].s) = key

\* C3 as stated: the scan fails with the missing-section error exactly when
\* no row contains 'ORDER DETAILS'; otherwise it succeeds, the boundary index
\* is the index of the first row that contains it, and no later row is
\* scanned.
C3_FirstMarkerRow ==
    pc # "extract_order_details" =>
        /\ ScanFailed <=> RowsWith("ORDER DETAILS") = {}
        /\ ScanFailed => exc.e = "ValueError"
        /\ ~ScanFailed =>
              /\ order_details_index = Num(First(RowsWith("ORDER DETAILS")) - 1)
              /\ pc = "process_line_items" => RecordedUpTo(First(RowsWith("ORDER DETAILS")))

\* C3 as amended: the scan fails with the missing-section error exactly when
\* no row whose first cell is a text contains 'ORDER DETAILS'; otherwise it
\* succeeds, the boundary index is the index of the first such row, and no
\* later row is scanned.
C3_FirstMarkerTextRow ==
    pc # "extract_order_details" =>
        /\ ScanFailed <=> TextRowsWith("ORDER DETAILS") = {}
        /\ ScanFailed => exc.e = "ValueError" /\ order_details_index = None
        /\ ~ScanFailed =>
              /\ order_details_index = Num(First(TextRowsWith("ORDER DETAILS")) - 1)
              /\ pc = "process_line_items" => RecordedUpTo(First(TextRowsWith("ORDER DETAILS")))

\* the scan has passed a row that contains the marker behind a blank first
\* cell and has stopped at a later row
C3_Witness ==
    /\ pc = "process_line_items"
    /\ \E r \in RowsWith("ORDER DETAILS") :
          /\ df.rows[r][1] = NaN
          /\ r < First(TextRowsWith("ORDER DETAILS"))
    /\ order_details_index = Num(First(TextRowsWith("ORDER DETAILS")) - 1)

\* the cell at row r, column c is read by the scan that stopped at row
\* order_details_index: its row starts with a text and is not after the
\* boundary row, and in the boundary row it is not right of the marker
Scanned(r, c) ==
    /\ r <= order_details_index.n + 1
    /\ IsStr(df.rows[r][1])
    /\ r = order_details_index.n + 1 =>
          \A c2 \in 1..(c - 1) : ~HoldsText(df.rows[r][c2], "ORDER DETAILS")

\* no cell that the scan reads after the one at r, c has the same label
LastScanned(r, c) ==
    \A r2 \in 1..Len(df.rows) : \A c2 \in 1..Len(df.rows[r2]) :
        (Scanned(r2, c2) /\ df.rows[r2][c2] = df.rows[r][c])
            => (r2 < r \/ (r2 = r /\ c2 <= c))

\* no other cell of the sheet has the same label
OnlyLabel(r, c) ==
    \A r2 \in 1..Len(df.rows) : \A c2 \in 1..Len(df.rows[r2]) :
        df.rows[r2][c2] = df.rows[r][c] => (r2 = r /\ c2 = c)

\* the field of the label at r, c holds the first non-blank cell to its right
RecordedFrom(r, c) ==
    RightOf(df.rows[r], c, Get(extracted_data, normalize_field_name(df.rows[r][c].s)))

\* C4 as stated, for a label that stands once in the sheet: a recognized
\* label in any column of any row before the first row that contains the
\* marker is recorded with the first non-blank cell to its right, also when
\* the first cell of its row is blank or a number.
C4_LabelInAnyRow ==
    pc = "process_line_items" =>
        \A r \in 1..(First(RowsWith("ORDER DETAILS")) - 1) : \A c \in 1..Len(df.rows[r]) :
            (LabelAt(r, c) /\ OnlyLabel(r, c)) => RecordedFrom(r, c)

\* C4 as amended: a recognized label in any column of a row that the scan
\* reads (a row whose first cell is a text, not after the boundary row, and
\* in the boundary row not right of the marker) is recorded with the first
\* non-blank cell to its right, absent when there is none, unless a cell read
\* later has the same label; rows whose first cell is blank or a number
\* record nothing.
C4_LabelInScannedRow ==
    pc = "process_line_items" =>
        /\ \A r \in 1..Len(df.rows) : \A c \in 1..Len(df.rows[r]) :
              (Scanned(r, c) /\ LabelAt(r, c) /\ LastScanned(r, c)) => RecordedFrom(r, c)
        /\ \A key \in DOMAIN extracted_data :
              \E r \in 1..Len(df.rows) : \E c \in 1..Len(df.rows[r]) :
                  /\ Scanned(r, c) /\ LabelAt(r, c)
                  /\ normalize_field_name(df.rows[r][c].s) = key

\* a label in the second column and one whose adjacent cell is blank have
\* been recorded, the later one staying
C4_Witness ==
    /\ pc = "process_line_items"
    /\ df.rows[1] = <<Str("x"), Str("PO#"), Str("A5")>>
    /\ df.rows[2] = <<Str("PO#"), NaN, Str("A2")>>
    /\ order_details_index = Num(2)
    /\ Get(extracted_data, "po#") = Str("A2")

(***************************************************************************)
(* Properties of the line items and of the addresses                       *)
(***************************************************************************)
\* _process_line_items has just returned or raised
LineItemsDone == pc = "process_addresses" \/ RaisedBy("_process_line_items")

\* the boundary row, counted from 1
Boundary == order_details_index.n + 1

\* the rows after the boundary whose rendering contains 'Important
\* Notification', in a cell or in a column label of the sheet
NotificationRows ==
    {r \in (Boundary + 1)..Len(df.rows) :
        \E c \in 1..Len(df.rows[r]) :
            \/ HoldsText(df.rows[r][c], "Important Notification")
            \/ HoldsText(df.columns[c], "Important Notification")}

\* the line items are the rows strictly between the rows labels and last, in
\* order, each keyed by the cells of the row labels
ItemsAreRowsBetween(labels, last) ==
    LET line_items == Get(extracted_data, "Line_Items")
    IN /\ line_items # None
       /\ Len(line_items.items) = last - labels - 1
       /\ \A i \in 1..(last - labels - 1) : \A c \in 1..Len(df.rows[labels]) :
             (/\ df.rows[labels][c] # NaN
              /\ \A c2 \in (c + 1)..Len(df.rows[labels]) :
                    df.rows[labels][c2] # df.rows[labels][c])
                => line_items.items[i][df.rows[labels][c]] = df.rows[labels + i][c]

\* the total recorded for label is the first non-blank cell to the right of
\* the last cell of row r that contains label
TotalFrom(label, r) ==
    \A c \in 1..Len(df.rows[r]) :
        (/\ HoldsText(df.rows[r][c], label)
         /\ \A c2 \in (c + 1)..Len(df.rows[r]) : ~HoldsText(df.rows[r][c2], label))
            => RightOf(df.rows[r], c, Get(extracted_data, normalize_field_name(label)))

NoTotals == DOMAIN extracted_data \cap {"total_quantity=", "total="} = {}

\* C5 as stated: when a row after the boundary contains 'Important
\* Notification', the line items are exactly the rows strictly between the
\* row of the column labels and the first such row, and the 'Total
\* Quantity=' and 'Total=' cells of that row each record the first non-blank
\* cell to their right.
C5_ItemsEndAtNotification ==
    (LineItemsDone /\ NotificationRows # {}) =>
        /\ pc = "process_addresses"
        /\ ItemsAreRowsBetween(Boundary + 1, First(NotificationRows))
        /\ TotalFrom("Total Quantity=", First(NotificationRows))
        /\ TotalFrom("Total=", First(NotificationRows))

\* C5 as amended: the same when the first row that contains 'Important
\* Notification' is not the row right after the boundary; when it is, the
\* table is empty and the extraction raises IndexError with no line item and
\* no total recorded.
C5_ItemsEndBeforeNotification ==
    (LineItemsDone /\ NotificationRows # {}) =>
        IF First(NotificationRows) = Boundary + 1
        THEN /\ RaisedBy("_process_line_items")
             /\ exc.e = "IndexError"
             /\ "Line_Items" \notin DOMAIN extracted_data
             /\ NoTotals
        ELSE /\ pc = "process_addresses"
             /\ ItemsAreRowsBetween(Boundary + 1, First(NotificationRows))
             /\ TotalFrom("Total Quantity=", First(NotificationRows))
             /\ TotalFrom("Total=", First(NotificationRows))

\* one line item has been taken from above a notification row that holds
\* both totals, and a row below it has been left out
C5_Witness ==
    /\ pc = "process_addresses"
    /\ First(NotificationRows) = Boundary + 3
    /\ Len(df.rows) = Boundary + 4
    /\ Len(extracted_data["Line_Items"].items) = 1
    /\ extracted_data["total="] = Str("Total Quantity=")
    /\ extracted_data["total_quantity="] = Num(2)

\* C6 as stated: when no row after the boundary contains 'Important
\* Notification', the extraction completes with every row after the row of
\* the column labels as a line item and records no totals.
C6_NoNotificationCompletes ==
    (LineItemsDone /\ NotificationRows = {} /\ Boundary < Len(df.rows)) =>
        /\ pc = "process_addresses"
        /\ ItemsAreRowsBetween(Boundary + 1, Len(df.rows) + 1)
        /\ NoTotals

\* the raw address is absent or the empty text
AbsentOrEmpty(v) == v = None \/ v = Str("")

\* C10: in a step of _process_addresses, each address field whose raw value
\* is absent or the empty text, found by the scan or not, becomes the empty
\* address with absent postal code and region, provided the fields before
\* it were absent or texts; and when all three are absent or empty the step
\* raises nothing.
C10_EmptyAddress ==
    [][pc = "process_addresses" =>
        /\ \A n \in 1..Len(address_fields) :
              (/\ AbsentOrEmpty(Get(extracted_data, address_fields[n]))
               /\ \A m \in 1..(n - 1) :
                     \/ Get(extracted_data, address_fields[m]) = None
                     \/ IsStr(Get(extracted_data, address_fields[m])))
                => Get(extracted_data', address_fields[n]) = AddressDict("", None, None)
        /\ (\A n \in 1..Len(address_fields) :
                AbsentOrEmpty(Get(extracted_data, address_fields[n])))
              => (pc' = "parsed" /\ exc' = None)]_vars

\* a sheet with an empty billing address, a shipping label with nothing to
\* its right and no supplier label has been parsed
C10_Witness ==
    /\ pc = "parsed"
    /\ df.rows[1] = <<Str("BILLED TO ADDRESS"), Str(""), Str("SHIPPED TO ADDRESS")>>
    /\ RowsWith("SUPPLIER ADDRESS") = {}
    /\ \A n \in 1..Len(address_fields) :
          extracted_data[address_fields[n]] = AddressDict("", None, None)

(***************************************************************************)
(* Properties of the order assembly                                        *)
(***************************************************************************)
\* the line items the assembly was given
LineItems == extracted_data["Line_Items"].items

Created == pc = "order_json_created"

\* the call has raised the error of the reconciliation
Mismatch ==
    /\ RaisedBy("_create_order_json")
    /\ exc.e = "ValueError"
    /\ "msg" \in DOMAIN exc
    /\ exc.msg = "Calculated total price and PDF total price do not match"

\* the date and the addresses are there, every row before the last makes a
\* product, and the 'Total Amount' of the last row is a number
Reconcilable ==
    /\ ~IsRaise(convert_to_unix(Get(extracted_data, "order_date")))
    /\ LineItems # <<>>
    /\ \A i \in 1..(Len(LineItems) - 1) : \A p \in product_of(LineItems[i]) : ~IsRaise(p)
    /\ ~IsRaise(grand_total(LineItems))

\* |calculated_total - grand total| and 5, both in units of 10^-(2 + d) for
\* the d decimals of the grand total
Difference ==
    LET grand == grand_total(LineItems)
    IN Abs(calculated_total * Pow10(grand.d) - 100 * grand.n)
Five == 5 * 100 * Pow10(grand_total(LineItems).d)

\* at most one product, and its amount and the grand total are multiples of
\* a quarter: the floats of the code hold them exactly
ExactFloats ==
    /\ Len(LineItems) <= 2
    /\ calculated_total % 25 = 0
    /\ (100 * grand_total(LineItems).n) % (25 * Pow10(grand_total(LineItems).d)) = 0

\* C1: the assembly raises the reconciliation error exactly when the
\* absolute difference of the calculated total and the grand total, read
\* from the 'Total Amount' of the last line item, is above 5; a difference
\* of 5 or less returns the order, and a failure returns none.  (At a
\* decimal difference of 5 the difference of the floats decides; it is 5
\* where the floats are exact.)
C1_MismatchAboveFive ==
    /\ Mismatch => (Reconcilable /\ Difference >= Five /\ order_json = None)
    /\ RaisedBy("_create_order_json") => order_json = None
    /\ (pc # "create_order_json" /\ Reconcilable) =>
          /\ Mismatch \/ Created
          /\ Difference > Five => Mismatch
          /\ Difference < Five => Created
          /\ (Difference = Five /\ ExactFloats) => Created
          /\ Created => order_json.k = "dict"

\* a product of 10.00 against a grand total of 15.01 has failed
C1_Witness ==
    /\ Mismatch
    /\ order_json = None
    /\ Len(LineItems) = 2
    /\ calculated_total = 1000
    /\ LineItems[2][Str("Total Amount")] = Str("INR 15.01")

\* the products are the rows before the last, in order
ProductsAreRowsBeforeLast ==
    /\ Len(order_json.products) = Len(LineItems) - 1
    /\ \A i \in 1..(Len(LineItems) - 1) :
          /\ order_json.products[i].name = LineItems[i][Str("Title")]
          /\ order_json.products[i].ean = Remove(LineItems[i][Str("FSN/ISBN13")].s, " ")

\* C2 as stated, for the table of the total row alone: it is assembled with
\* zero products whenever its date and its total amount are well-formed.
C2_TotalRowAloneAssembles ==
    (pc # "create_order_json" /\ Len(LineItems) = 1 /\ Reconcilable) =>
        (Created /\ order_json.products = <<>>)

\* C2 as amended: every order that is assembled from a table of n >= 1 line
\* items has exactly n - 1 products, those of the first n - 1 rows in row
\* order, and the last row is none of them; the table of the total row alone
\* is assembled, with zero products, exactly when its total amount is at
\* most 5 in absolute value, and fails the reconciliation otherwise.
C2_ProductsAreRowsBeforeLast ==
    /\ Created => (Len(LineItems) >= 1 /\ ProductsAreRowsBeforeLast)
    /\ (pc # "create_order_json" /\ Len(LineItems) = 1 /\ Reconcilable) =>
          IF Abs(grand_total(LineItems).n) <= 5 * Pow10(grand_total(LineItems).d)
          THEN Created /\ order_json.products = <<>>
          ELSE Mismatch

\* an order of two different products has been assembled from three rows
C2_Witness ==
    /\ Created
    /\ Len(LineItems) = 3
    /\ Len(order_json.products) = 2
    /\ order_json.products[1].name = Str("Salt")
    /\ order_json.products[2].name = Str("Soap")

(***************************************************************************)
(* Properties of create_order                                              *)
(***************************************************************************)
\* call_api has been asked for the method, for this email
Requested(method) == \E i \in 1..Len(requests) : requests[i] = method

\* the call of the method has returned the response of the Base system
Received(method) ==
    \E i \in 1..Len(requests) :
        /\ requests[i] = method
        /\ ~(i = Len(requests) /\ RaisedBy("call_api"))

\* the entries of the getOrderExtraFields response
ExtraFieldsHeld ==
    IF "extra_fields" \in DOMAIN base["getOrderExtraFields"]
    THEN base["getOrderExtraFields"].extra_fields ELSE <<>>

\* the response holds an entry of this name
Held(field) == \E i \in 1..Len(ExtraFieldsHeld) : ExtraFieldsHeld[i].name = Str(field)

\* the required names the response does not hold, in the order they are asked for
MissingFields == SelectSeq(required_extra_fields, LAMBDA field : ~Held(field))

BeforeSubmission ==
    /\ ~(RaisedBy("call_api") /\ requests[Len(requests)] = "addOrder")
    /\ exc.by \notin {"send_success_email", "move_email", "process_email", "run"}

\* C12: an error raised by the scan, the line items, the addresses, a lookup
\* or the assembly of a document reaches the except of run's loop, which
\* moves the email to FAILED and goes on with the next one; addOrder has not
\* been called for that document, and it is called only for an order JSON
\* that create_order has assembled without error.
C12_FatalErrorsPropagate ==
    [][/\ (exc' # None => (pc' = "raised" \/ (pc' = "run_raised" /\ pc = "raised")))
       /\ (exc' # None /\ BeforeSubmission' => ~Requested("addOrder")')
       /\ (pc = "raised" =>
              /\ \/ /\ pc' = "process_email"
                    /\ email_id' = email_id + 1
                    /\ folders' = [folders EXCEPT ![email_id] = "FAILED"]
                 \/ /\ pc' = "run_raised"
                    /\ exc'.by = "run"
                    /\ folders' = folders
              /\ requests' = requests
              /\ order_json' = order_json)
       /\ (Requested("addOrder")' /\ ~Requested("addOrder") =>
              /\ pc = "order_json_created"
              /\ exc = None
              /\ order_json # None)]_vars

\* the second email's document fails the reconciliation after the first
\* email's order was submitted
C12_Witness ==
    /\ email_id = 2
    /\ folders[1] = "PROCESSED"
    /\ RaisedBy("_create_order_json")
    /\ Requested("getOrders")
    /\ ~Requested("addOrder")

\* process_po_file after the scan, on a parser that holds nothing
FreshLineItems(scanned, frame) ==
    IF scanned.exc # None THEN [data |-> scanned.data, exc |-> scanned.exc]
    ELSE process_line_items(scanned.data, scanned.order_details_index, frame)

FreshAddresses(r) == IF r.exc # None THEN r ELSE process_addresses(r.data)

\* what process_po_file extracts from the sheet on a parser that has
\* processed no document before, and the exception that ends it
FreshParse(frame) ==
    FreshAddresses(FreshLineItems(extract_order_details(EmptyDict, None, frame), frame))

\* the sku_map a parser that has processed no document before can have after
\* the assembly of the sheet's order
FreshSkuMaps(frame) ==
    {r.sku_map : r \in create_order_json(FreshParse(frame).data, 0, EmptyDict,
                                           lookups.status_id, lookups.source_id,
                                           lookups.extra_field_mapping)}

ParseFailed ==
    \/ RaisedBy("_extract_order_details")
    \/ RaisedBy("_process_line_items")
    \/ RaisedBy("_process_addresses")

\* C13 (as stated): what a document's processing sees and yields depends on
\* that document and the lookups only: when its processing starts the parser
\* holds no field, no SKU entry and no checked step of an earlier document,
\* and the extracted data, the failure of the extraction and the SKU map are
\* those of a parser that has processed nothing before.
C13_DocumentsAreIndependent ==
    /\ pc = "extract_order_details" =>
          /\ extracted_data = EmptyDict
          /\ sku_map = EmptyDict
          /\ checklist = NoChecklist
    /\ pc = "parsed" => extracted_data = FreshParse(df).data
    /\ ParseFailed => FreshParse(df).exc # None
    /\ pc = "order_json_created" => sku_map \in FreshSkuMaps(df)

(***************************************************************************)
(* Properties of the status and source lookups                             *)
(***************************************************************************)
\* the statuses of the getOrderStatusList response
StatusesHeld ==
    IF "statuses" \in DOMAIN base["getOrderStatusList"]
    THEN base["getOrderStatusList"].statuses ELSE <<>>

\* the items of the personal sources of the getOrderSources response
SourcesHeld ==
    IF "sources" \notin DOMAIN base["getOrderSources"] THEN <<>>
    ELSE IF "personal" \notin DOMAIN base["getOrderSources"].sources THEN <<>>
    ELSE base["getOrderSources"].sources.personal

\* the statuses named 'New orders' in any letter case
StatusMatches ==
    {i \in 1..Len(StatusesHeld) : Lower(StatusesHeld[i].name.s) = "new orders"}

\* the sources named 'FLIPKART GROCERY' exactly
SourceMatches == {i \in 1..Len(SourcesHeld) : SourcesHeld[i][2] = Str("FLIPKART GROCERY")}

\* create_order has ended with ValueError(message) after the named requests,
\* with no order JSON
Aborted(message, made) ==
    /\ RaisedBy("create_order")
    /\ exc.e = "ValueError"
    /\ exc.msg = message
    /\ requests = made
    /\ order_json = None
    /\ ~checklist["Create Order Json"]

\* C14: the status id is the id of the first status whose name is 'New
\* orders' in any letter case, the source id is the key of the first personal
\* source whose name is 'FLIPKART GROCERY' exactly; when no status or no
\* source matches, the lookup returns None and create_order ends with a
\* ValueError before any further request and before the order JSON.
C14_FirstMatchOrAbort ==
    /\ Received("getOrderStatusList") =>
          IF StatusMatches = {}
          THEN /\ lookups.status_id = None
               /\ Aborted("Status 'New orders' not found", <<"getOrderStatusList">>)
          ELSE lookups.status_id = StatusesHeld[First(StatusMatches)].id
    /\ (Len(requests) >= 2 /\ Received("getOrderSources")) =>
          IF SourceMatches = {}
          THEN /\ lookups.source_id = None
               /\ Aborted("Order source 'FLIPKART GROCERY' not found",
                          <<"getOrderStatusList", "getOrderSources">>)
          ELSE lookups.source_id = SourcesHeld[First(SourceMatches)][1]

\* two statuses and one of two sources match: 'new orders' comes before 'New
\* Orders', 'Flipkart Grocery' before 'FLIPKART GROCERY'
C14_Witness ==
    /\ Cardinality(StatusMatches) = 2
    /\ Len(SourcesHeld) = 2
    /\ SourceMatches = {2}
    /\ lookups.status_id = Num(9)
    /\ lookups.source_id = Str("79")
    /\ pc = "fetch_extra_fields"

(***************************************************************************)
(* Properties of the products                                              *)
(***************************************************************************)
\* the call of _create_order_json has ended
Assembled == pc \in {"order_json_created", "raised"} /\ Len(LineItems) >= 1

\* one rate of a line item as a number, an absent one (no column, or a blank
\* cell) as zero
RateOf(item, label) ==
    IF Str(label) \notin DOMAIN item \/ item[Str(label)] = NaN THEN Float(0, 0)
    ELSE float_of_text(Remove(item[Str(label)].s, "%"))

SumOfRates(item) ==
    FloatAdd(FloatAdd(RateOf(item, "SGST/UTGST Rate"), RateOf(item, "CGST Rate")),
             RateOf(item, "IGST Rate"))

BlankRates(item) == {label \in DOMAIN item : label.s \in {"SGST/UTGST Rate", "CGST Rate", "IGST Rate"} /\ item[label] = NaN}

\* the line item with "0" in its blank rate cells
ZeroForBlank(item) ==
    [label \in DOMAIN item |-> IF label \in BlankRates(item) THEN Str("0") ELSE item[label]]

\* the line items with "0" in the blank rate cells of the products
ZeroedItems ==
    [i \in 1..Len(LineItems) |->
        IF i < Len(LineItems) THEN ZeroForBlank(LineItems[i]) ELSE LineItems[i]]

\* what the assembly can return or raise for the table with "0" in the blank
\* rate cells
ZeroedOutcomes ==
    {[order_json |-> r.order_json, exc |-> Traceback(r.exc, "_create_order_json")] :
        r \in create_order_json(Put(extracted_data, "Line_Items", List(ZeroedItems)),
                                0, EmptyDict, lookups.status_id, lookups.source_id,
                                lookups.extra_field_mapping)}

\* C15 (as stated): the tax rate of every product is the sum of its three
\* rates, an absent rate (no column, or a blank cell) counting as zero: a
\* table with blank rate cells is assembled, or rejected, as the same table
\* with "0" in these cells.
C15_AbsentRateIsZero ==
    Assembled =>
        /\ [order_json |-> order_json, exc |-> exc] \in ZeroedOutcomes
        /\ Created => \A i \in 1..Len(order_json.products) :
                          order_json.products[i].tax_rate = SumOfRates(LineItems[i])

\* the text has a whitespace character
HasWhitespace(text) == \E i \in 1..Len(text) : IsSpace(Ch(text, i))

\* the characters of the text that are no ' ', in their order
RECURSIVE Spaceless(_)
Spaceless(text) ==
    IF text = "" THEN ""
    ELSE (IF Ch(text, 1) = " " THEN "" ELSE Ch(text, 1)) \o Spaceless(From(text, 2))

\* C16 (as stated): no EAN of a product of an assembled order, and no key of
\* the SKU map, contains a whitespace character of any kind.
C16_NoWhitespaceInEan ==
    pc # "create_order_json" =>
        /\ Created => \A i \in 1..Len(order_json.products) :
                          ~HasWhitespace(order_json.products[i].ean)
        /\ \A key \in DOMAIN sku_map : ~HasWhitespace(key)

\* C16 (amended): the EAN of every product of an assembled order is the
\* identifier cell without its ' ' characters, every other character kept,
\* tabs and newlines included; it is a key of the SKU map, and no key of the
\* SKU map contains a ' '.
C16_OnlySpacesRemoved ==
    pc # "create_order_json" =>
        /\ Created => \A i \in 1..Len(order_json.products) :
                          /\ order_json.products[i].ean =
                                Spaceless(LineItems[i][Str("FSN/ISBN13")].s)
                          /\ order_json.products[i].ean \in DOMAIN sku_map
        /\ \A key \in DOMAIN sku_map : ~Contains(key, " ")

\* an identifier cell with spaces, a tab and a newline
C16_Witness ==
    /\ Created
    /\ \E i \in 1..Len(order_json.products) :
          /\ LineItems[i][Str("FSN/ISBN13")] = Str("NU\tTS\n 1")
          /\ order_json.products[i].ean = "NU\tTS\n1"
          /\ "NU\tTS\n1" \in DOMAIN sku_map
    /\ \E i \in 1..Len(order_json.products) :
          /\ LineItems[i][Str("FSN/ISBN13")] = Str(" GH EE 1")
          /\ order_json.products[i].ean = "GHEE1"

(***************************************************************************)
(* Properties of a label that occurs several times                         *)
(***************************************************************************)
\* the cells the scan has read that hold the label, as <<row, column>>
Occurrences(label) ==
    {a \in (1..Len(df.rows)) \X (1..Len(df.columns)) :
        Scanned(a[1], a[2]) /\ df.rows[a[1]][a[2]] = Str(label)}

\* cell a is read after cell b: rows from the top, cells from the left
ReadAfter(a, b) == a[1] > b[1] \/ (a[1] = b[1] /\ a[2] > b[2])

LastOf(cells) == CHOOSE a \in cells : \A b \in cells : a = b \/ ReadAfter(a, b)

\* the field of the label is there and holds what stands right of cell a, or
\* None when nothing does
HoldsValueOf(label, a) ==
    /\ normalize_field_name(label) \in DOMAIN extracted_data
    /\ RightOf(df.rows[a[1]], a[2], extracted_data[normalize_field_name(label)])

\* C17: after the scan the field of every label that it has read holds the
\* value of the last cell read with that label, None when no non-blank cell
\* stands to its right, whatever the earlier cells gave; such a cell raises
\* no error: the scan fails only for the missing marker.
C17_LastOccurrenceWins ==
    /\ pc = "process_line_items" =>
          \A label \in fields_to_extract :
              Occurrences(label) # {} => HoldsValueOf(label, LastOf(Occurrences(label)))
    /\ ScanFailed =>
          /\ exc.e = "ValueError"
          /\ TextRowsWith("ORDER DETAILS") = {}

\* 'PO#' is read twice, first with the value A1 to its right, then with no
\* cell to its right
C17_Witness ==
    /\ pc = "process_line_items"
    /\ Cardinality(Occurrences("PO#")) = 2
    /\ \E a \in Occurrences("PO#") : RightOf(df.rows[a[1]], a[2], Str("A1"))
    /\ RightOf(df.rows[LastOf(Occurrences("PO#"))[1]], LastOf(Occurrences("PO#"))[2], None)
    /\ "po#" \in DOMAIN extracted_data
    /\ extracted_data["po#"] = None

(***************************************************************************)
(* Properties of the calculated total                                      *)
(***************************************************************************)
\* round(totalAmount / quantity, 2) of a line item, in hundredths; a set, as
\* a tie falls where the float of the quotient puts it
UnitPrices(item) ==
    LET amount == float_of_text(Remove(item[Str("Total Amount")].s, ","))
    IN round_cents(amount.n, amount.d, py_int(item[Str("Quantity")]).n)

\* the sums of round(unitPrice * quantity, 2) over the first n line items,
\* each amount rounded before it is added
RECURSIVE SumsOfAmounts(_)
SumsOfAmounts(n) ==
    IF n = 0 THEN {0}
    ELSE {sum + unitPrice * py_int(LineItems[n][Str("Quantity")]).n :
             sum \in SumsOfAmounts(n - 1), unitPrice \in UnitPrices(LineItems[n])}

\* the sum of price times quantity over the first n products of the order
RECURSIVE SumOfProducts(_)
SumOfProducts(n) ==
    IF n = 0 THEN 0
    ELSE SumOfProducts(n - 1)
         + order_json.products[n].price_brutto * order_json.products[n].quantity

\* the sum of the 'Total Amount' cells of the first n line items, rounded
\* once, in hundredths
RECURSIVE SumOfCells(_)
SumOfCells(n) ==
    IF n = 0 THEN 0
    ELSE LET amount == float_of_text(Remove(LineItems[n][Str("Total Amount")].s, ","))
         IN SumOfCells(n - 1) + (100 * amount.n) \div Pow10(amount.d)

NoSpaceRun(text) ==
    \A i \in 1..Len(text) : ~(IsSpace(Ch(text, i)) /\ IsSpace(Ch(text, i + 1)))

\* no two commas that are adjacent or have only whitespace between them
NoCommaPair(text) ==
    \A i \in 1..Len(text) :
        Ch(text, i) = "," => Ch(text, i + 1 + SpaceRun(text, i + 1)) # ","

\* no three commas with at most whitespace between one and the next
NoCommaTriple(text) ==
    \A i \in 1..Len(text) :
        (Ch(text, i) = "," /\ Ch(text, i + 1 + SpaceRun(text, i + 1)) = ",") =>
            LET second == i + 1 + SpaceRun(text, i + 1)
            IN Ch(text, second + 1 + SpaceRun(text, second + 1)) # ","

NoTrailingComma(text) == Ch(text, Len(text)) # ","

NoLabel(text) == ~Contains(Lower(text), "gstin no:")

\* the places of text where part stands
PlacesOf(text, part) == {i \in 1..Len(text) : OccursAt(text, part, i)}

\* the postal code and the region found stand once in the text, so that no
\* later occurrence is taken out before the clean-up
FoundOnce ==
    /\ address_ret.pincode # None =>
          Cardinality(PlacesOf(address_arg.s, address_ret.pincode.s)) = 1
    /\ address_ret.state # None =>
          Cardinality(PlacesOf(Lower(address_arg.s), Lower(address_ret.state.s))) = 1

\* 'GSTIN' stands at most once in the text, in any letter case, and then
\* after no letter, digit or underscore
OneFreeLabel ==
    /\ Cardinality(PlacesOf(Lower(address_arg.s), "gstin")) <= 1
    /\ \A i \in PlacesOf(Lower(address_arg.s), "gstin") : ~IsWordChar(Ch(address_arg.s, i - 1))

\* C19 as stated: for every text, the cleaned text holds no run of two or
\* more whitespace characters, no two commas that are adjacent or separated
\* only by whitespace, no trailing comma and no 'GSTIN NO:' label in any
\* letter case.
C19_AlwaysClean ==
    Normalized =>
        /\ NoSpaceRun(address_ret.address)
        /\ NoCommaPair(address_ret.address)
        /\ NoTrailingComma(address_ret.address)
        /\ NoLabel(address_ret.address)

\* C19 as amended: for every text, the cleaned text holds no run of two or
\* more whitespace characters and no whitespace at either end.  When the
\* postal code and the region found stand once in the text, it holds no
\* pair of commas and no trailing comma if the text holds no ':' and no three
\* commas in a row, and it holds no 'GSTIN NO:' label if 'GSTIN' stands at
\* most once in the text and after no word character.
C19_CleanWhereOnePassSuffices ==
    Normalized =>
        /\ NoSpaceRun(address_ret.address)
        /\ ~IsSpace(Ch(address_ret.address, 1))
        /\ ~IsSpace(Ch(address_ret.address, Len(address_ret.address)))
        /\ (FoundOnce /\ ~Contains(address_arg.s, ":") /\ NoCommaTriple(address_arg.s)) =>
              /\ NoCommaPair(address_ret.address)
              /\ NoTrailingComma(address_ret.address)
        /\ (FoundOnce /\ OneFreeLabel) => NoLabel(address_ret.address)

\* an address with runs of whitespace, two pairs of commas and a comma at
\* its end has been cleaned
C19_Witness ==
    /\ pc = "normalized"
    /\ address_arg = Str("Flat 4,, MG Road , ,Goa  403001,\n")
    /\ FoundOnce
    /\ ~NoCommaPair(address_arg.s)
    /\ address_ret = AddressDict("Flat 4, MG Road ,Goa 403001", Str("403001"), Str("Goa"))

(***************************************************************************)
(* Properties of the check for an existing order                           *)
(***************************************************************************)
\* the orders of the getOrders response
OrdersHeld ==
    IF "orders" \in DOMAIN base["getOrders"] THEN base["getOrders"].orders ELSE <<>>

\* the PO number the scan has recorded from the 'PO#' cell
scanned_po_number == Get(extracted_data, normalize_field_name("PO#"))

\* the orders whose 'PO Number' custom field is the PO number of the document
OrdersOfThisPo ==
    {n \in 1..Len(OrdersHeld) :
        /\ "custom_extra_fields" \in DOMAIN OrdersHeld[n]
        /\ Get(OrdersHeld[n]["custom_extra_fields"],
               PyStr(lookups.extra_field_mapping["PO Number"])) = scanned_po_number}

\* _check_order_exists has been called and has come to its end or raised
OrderChecked ==
    /\ checklist["Check And Fetch Custom Field"]
    /\ pc # "check_order_exists"

\* C20: when the system holds an order whose 'PO Number' custom field is
\* the PO number scanned from the 'PO#' cell, create_order raises in the
\* check for an existing order: no order is assembled and addOrder is not
\* called.
C20_ExistingOrderAborts ==
    (OrderChecked /\ OrdersOfThisPo # {}) =>
        /\ pc = "raised"
        /\ scanned_po_number # None
        /\ order_json = None
        /\ ~checklist["Create Order Json"]
        /\ ~Requested("addOrder")

(***************************************************************************)
(* Properties of the labels of the emails                                  *)
(***************************************************************************)
\* the emails the loop has dealt with
Handled == 1..(email_id - 1)

\* addOrder has created an order for the document of email i
OrderAdded(i) == \E n \in 1..Len(orders_added) : orders_added[n] = i

\* the step moves the email the loop is at to the label
MovesTo(label) ==
    /\ email_id \in DOMAIN folders
    /\ folders[email_id] # label
    /\ folders'[email_id] = label

\* C21 as stated: an email that the loop has dealt with carries PROCESSED
\* exactly when an order was created for its document, and an email under
\* FAILED has no order.
C21_ProcessedIffOrderAdded ==
    \A i \in Handled :
        /\ folders[i] = "PROCESSED" <=> OrderAdded(i)
        /\ folders[i] = "FAILED" => ~OrderAdded(i)

\* C21 as amended: an email is moved to PROCESSED only after addOrder has
\* created the order of its document and the success email was sent, and
\* every email with an order is moved to PROCESSED or to FAILED; it is moved
\* to FAILED with an order exactly when sending the success email or the
\* move to PROCESSED has raised after addOrder succeeded; no email gets two
\* orders.
C21_ProcessedOnlyIfOrderAdded ==
    [][/\ MovesTo("PROCESSED") =>
              /\ pc = "created"
              /\ exc = None
              /\ requests[Len(requests)] = "addOrder"
              /\ OrderAdded(email_id)
       /\ MovesTo("FAILED") =>
              /\ pc = "raised"
              /\ OrderAdded(email_id) <=> exc.by \in {"send_success_email", "move_email"}
       /\ \A i \in Handled' :
              /\ folders'[i] = "PROCESSED" => OrderAdded(i)'
              /\ OrderAdded(i)' => folders'[i] \in {"PROCESSED", "FAILED"}
       /\ \A m, n \in 1..Len(orders_added') :
              orders_added'[m] = orders_added'[n] => m = n]_vars

\* the order of the first email was created and the email is under FAILED;
\* the second email is under PROCESSED
C21_Witness ==
    /\ pc = "logged_out"
    /\ folders = <<"FAILED", "PROCESSED">>
    /\ orders_added = <<1, 2>>

\* run has come to its end without raising
Completed == pc = "logged_out"

\* process_email has returned required files for email i
HasRequiredFile(i) == new_emails[i] # None

SenderMailResolved ==
    /\ lookups.extra_field_mapping # None
    /\ "Sender Mail" \in DOMAIN lookups.extra_field_mapping

\* the custom field of the order under the 'Sender Mail' identifier
SenderMailField ==
    Get(order_json.custom_extra_fields, lookups.extra_field_mapping["Sender Mail"])

\* C23: every assembled order whose lookup resolved 'Sender Mail' holds the
\* configured sender email in the custom field of that identifier, whatever
\* the number of its products, zero included.
C23_SenderMailInEveryOrder ==
    (Created /\ SenderMailResolved) => SenderMailField = sender_email

(***************************************************************************)
(* Properties of the checklist                                             *)
(***************************************************************************)
\* the document of the email the loop is at is being parsed, or its parsing
\* has failed
Parsing ==
    \/ pc \in {"extract_order_details", "process_line_items", "process_addresses"}
    \/ ParseFailed

\* addOrder has not created the order of the email the loop is at
NotYetAdded == email_id \in DOMAIN folders /\ ~OrderAdded(email_id)

\* C24: 'Create order' is checked only if every other step is checked, and
\* each flag tells of the document being processed: while it is parsed, or
\* when its parsing has failed, 'Parse file' is not checked, and 'Create
\* order' is not checked before addOrder has created its order.
C24_ChecklistReflectsDocument ==
    /\ checklist["Create order"] => \A step \in DOMAIN checklist : checklist[step]
    /\ Parsing => ~checklist["Parse file"]
    /\ (pc \notin {"process_email", "logged_out", "run_raised"} /\ NotYetAdded) =>
          ~checklist["Create order"]

(***************************************************************************)
(* lambda_handler: the credentials and the users are read from DynamoDB,   *)
(* then process_client is called for each user of the FLIPKART channel.    *)
(***************************************************************************)
MaxUsers == 3

\* what a scan of a DynamoDB table raises, or None
dynamodb_outcomes == {None, Raise("ClientError")}

\* what FlipkartPOParser.run raises out of process_client, or None
run_outcomes == {None, Raise("IMAP4.error")}

\* what the S3 calls of cleanup_old_files raise, or None
s3_outcomes == {None, Raise("S3ClientError")}

\* fernet.decrypt of a stored password
decrypt_password(encrypted_password) ==
    IF encrypted_password = "gAAAAA" THEN Str("secret") ELSE Raise("InvalidToken")

\* the items a scan of email_credentials returns
EmailTables ==
    {<<>>,
     <<[k |-> "dict", email |-> "po@client.example", password |-> "gAAAAA"]>>,
     <<[k |-> "dict", email |-> "po@client.example", password |-> "plain"]>>}

get_email_credentials(scanned, Items) ==
    IF scanned # None THEN scanned
    ELSE IF Items = <<>> THEN ValueError("No email credentials found")
    ELSE IF IsRaise(decrypt_password(Items[1].password))
         THEN decrypt_password(Items[1].password)
    ELSE [Items[1] EXCEPT !.password = decrypt_password(Items[1].password)]

\* the channels of an item of user_configs
ChannelLists == {<<>>, <<"AMAZON", "FLIPKART">>}

\* an item of user_configs; has_token: whether it has the key 'token'
Users(ids) ==
    [k : {"dict"}, user_id : ids, channels : ChannelLists, has_token : BOOLEAN]

\* the items a scan of user_configs returns: at most n, no two of one user_id
RECURSIVE UserTablesOf(_, _)
UserTablesOf(ids, n) ==
    IF n = 0 THEN {<<>>}
    ELSE {<<>>} \cup {<<user>> \o others : user \in Users(ids),
                                          others \in UserTablesOf(ids, n - 1)}

Distinct(Items) ==
    \A m, n \in 1..Len(Items) : Items[m].user_id = Items[n].user_id => m = n

UserTables == {Items \in UserTablesOf(1..MaxUsers, MaxUsers) : Distinct(Items)}

\* next(channel for channel in channels if channel['name'] == 'FLIPKART'), as a test
flipkart_channel(user) == \E n \in 1..Len(user.channels) : user.channels[n] = "FLIPKART"

user_data(user) == [k |-> "dict", client_id |-> user.user_id]

users_of(Items) ==
    LET flipkart == SelectSeq(Items, flipkart_channel)
    IN  [n \in 1..Len(flipkart) |-> user_data(flipkart[n])]

get_flipkart_users(scanned, Items) ==
    IF scanned # None THEN scanned
    ELSE IF \E n \in 1..Len(Items) : flipkart_channel(Items[n]) /\ ~Items[n].has_token
         THEN Raise("KeyError")
    ELSE List(users_of(Items))

\* process_client: parser.run(), then cleanup_old_files; it raises what they raise
process_client(ran, cleaned) == IF ran # None THEN ran ELSE cleaned

\* the loop ends at the first client whose processing raised
break_on_failure(position, raised) ==
    IF raised = None THEN position + 1 ELSE MaxUsers + 1

\* 'for client_config in client_configs' with 'continue' in its except
next_client(position, raised) == position + 1

success_response == [statusCode |-> 200, body |-> "Successfully processed all clients"]
error_response(e) == [statusCode |-> 500, body |-> e.e]

InitLambda ==
    /\ pc = "not_constructed"
    /\ exc = None
    /\ address_arg = None
    /\ address_ret = None
    /\ NoDocument
    /\ checklist = NoChecklist
    /\ NoRun
    /\ lambda_pc = "get_email_credentials"
    /\ email_cred = None
    /\ client_configs = None
    /\ client = 0
    /\ attempted = <<>>
    /\ outcomes = <<>>
    /\ result = None

\* lines 161-162, and 183-187 when get_email_credentials raises
GetEmailCredentials ==
    /\ lambda_pc = "get_email_credentials"
    /\ \E scanned \in dynamodb_outcomes, Items \in EmailTables :
          IF IsRaise(get_email_credentials(scanned, Items))
          THEN /\ result' = error_response(get_email_credentials(scanned, Items))
               /\ lambda_pc' = "returned"
               /\ UNCHANGED email_cred
          ELSE /\ email_cred' = get_email_credentials(scanned, Items)
               /\ lambda_pc' = "get_flipkart_users"
               /\ UNCHANGED result
    /\ UNCHANGED <<pc, exc, address_arg, address_ret, df, extracted_data,
                   order_details_index, calculated_total, sku_map, order_json, checklist,
                   run_vars, client_configs, client, attempted, outcomes>>

\* lines 165-166, and 183-187 when get_flipkart_users raises
GetFlipkartUsers ==
    /\ lambda_pc = "get_flipkart_users"
    /\ \E scanned \in dynamodb_outcomes, Items \in UserTables :
          IF IsRaise(get_flipkart_users(scanned, Items))
          THEN /\ result' = error_response(get_flipkart_users(scanned, Items))
               /\ lambda_pc' = "returned"
               /\ UNCHANGED <<client_configs, client>>
          ELSE /\ client_configs' = get_flipkart_users(scanned, Items)
               /\ client' = 1
               /\ lambda_pc' = "process_client"
               /\ UNCHANGED result
    /\ UNCHANGED <<pc, exc, address_arg, address_ret, df, extracted_data,
                   order_details_index, calculated_total, sku_map, order_json, checklist,
                   run_vars, email_cred, attempted, outcomes>>

\* lines 169-176: one turn of the loop
ProcessClient ==
    /\ lambda_pc = "process_client"
    /\ client <= Len(client_configs.items)
    /\ \E ran \in run_outcomes, cleaned \in s3_outcomes :
          /\ outcomes' = Append(outcomes, process_client(ran, cleaned))
          /\ client' = next_client(client, process_client(ran, cleaned))
    /\ attempted' = Append(attempted, client_configs.items[client].client_id)
    /\ UNCHANGED <<pc, exc, address_arg, address_ret, df, extracted_data,
                   order_details_index, calculated_total, sku_map, order_json, checklist,
                   run_vars, lambda_pc, email_cred, client_configs, result>>

\* lines 178-181: the loop is over
ReturnSuccess ==
    /\ lambda_pc = "process_client"
    /\ client > Len(client_configs.items)
    /\ result' = success_response
    /\ lambda_pc' = "returned"
    /\ UNCHANGED <<pc, exc, address_arg, address_ret, df, extracted_data,
                   order_details_index, calculated_total, sku_map, order_json, checklist,
                   run_vars, email_cred, client_configs, client, attempted, outcomes>>

NextLambda == GetEmailCredentials \/ GetFlipkartUsers \/ ProcessClient \/ ReturnSuccess

SpecLambda == InitLambda /\ [][NextLambda]_vars

(***************************************************************************)
(* Properties of lambda_handler                                            *)
(***************************************************************************)
Returned == lambda_pc = "returned"

\* get_email_credentials and get_flipkart_users have both returned
Retrieved == email_cred # None /\ client_configs # None

\* the client_id of the first n clients get_flipkart_users returned
ClientIds(n) == [i \in 1..n |-> client_configs.items[i].client_id]

\* C25: lambda_handler calls process_client for every client that
\* get_flipkart_users returned, in their order, whatever the earlier calls
\* raised: in the loop the calls made are those for the clients before the
\* current one, and at the return they are those for all the clients.  It
\* returns status 200 when the credentials and the users were retrieved,
\* whether or not a call of process_client raised, and status 500 exactly
\* when their retrieval raised, without any call of process_client.
C25_EveryClientAttempted ==
    /\ Len(outcomes) = Len(attempted)
    /\ lambda_pc = "process_client" =>
          /\ Retrieved
          /\ client \in 1..(Len(client_configs.items) + 1)
          /\ attempted = ClientIds(client - 1)
    /\ (Returned /\ Retrieved) =>
          /\ attempted = ClientIds(Len(client_configs.items))
          /\ result = success_response
    /\ (Returned /\ ~Retrieved) =>
          /\ attempted = <<>>
          /\ result.statusCode = 500
    /\ ~Returned => result = None

\* three clients have been attempted in the order get_flipkart_users gave,
\* although the first two calls of process_client raised, and 200 is returned
C25_Witness ==
    /\ Returned
    /\ result = success_response
    /\ attempted = <<2, 3, 1>>
    /\ outcomes = <<Raise("IMAP4.error"), Raise("S3ClientError"), None>>

====
